---- MODULE Spec2Model ----
(***************************************************************************)
(* Verification model of the shared utilities of kpis-social-extractor     *)
(* v1.1: the token-bucket RateLimiter, the two-tier CacheManager and the   *)
(* BrowserPool.  Each component has its own specification (SpecLimiter,    *)
(* SpecCache, SpecPool); the variables of the other components are held at *)
(* their constructed values.                                               *)
(***************************************************************************)
EXTENDS Integers, Sequences, FiniteSets, TLC

\* ------------------------------------------------------------------------
\* Bounds of the model
\* ------------------------------------------------------------------------
MaxRate == 2
MaxPer == 3
MaxBurst == 2
NumTasks == 2
MaxTtl == 2
MaxVal == 2
MaxPool == 2

Tasks == 1..NumTasks
NoTask == 0

Min(a, b) == IF a <= b THEN a ELSE b
CeilDiv(a, b) == (a + b - 1) \div b

VARIABLES
    \* RateLimiter (rate_limiter.py)
    rate,        \* self.rate
    per,         \* self.per
    max_tokens,  \* self.max_tokens, in units of 1/per token (burst * per)
    tokens,      \* self.tokens, in units of 1/per token
    elapsed,     \* time.monotonic() - self.updated_at, in seconds
    lock,        \* owner of self.lock, NoTask when free
    pc,          \* where each calling task is
    mode,        \* the call a task is in: "acquire", "wait" or "none"
    can_proceed, \* the branch of line 54 a task inside acquire() chose
    timer,       \* seconds left of a task's asyncio.sleep(wait_time)
    taken,       \* tokens consumed so far on behalf of the task's call
    looped,      \* the task's wait() has slept at least once
    capped,      \* the refill a task inside acquire() made hit max_tokens
    last,        \* what the acquire() completed by the last step returned
    immediate    \* successful acquires so far while no time has elapsed
                 \* since construction; -1 once time has elapsed

limiterVars == <<rate, per, max_tokens, tokens, elapsed, lock, pc, mode,
                 can_proceed, timer, taken, looped, capped, last, immediate>>

VARIABLES
    \* CacheManager (cache_manager.py)
    enabled,     \* Config.CACHE_ENABLED
    ttl,         \* Config.CACHE_TTL, in seconds
    backend,     \* Config.CACHE_BACKEND: "memory", "file" or "redis"
    insts,       \* the CacheManager instances that exist
    keys,        \* the cache keys the callers use
    mem,         \* self._memory_cache of each CacheManager instance, the
                 \* timestamp kept as the entry's age time.time() - timestamp
    store,       \* the backend the instances share: the files of CACHE_DIR
                 \* (content, age of the mtime) or the keys of the Redis db
    ret,         \* the call completed by the last step and what it returned
    lastSet,     \* per key, the value and age of the most recent set() that
                 \* no delete() or clear() followed
    gone         \* per instance, the keys it deleted or cleared and that
                 \* no instance has set since

cacheVars == <<enabled, ttl, backend, insts, keys, mem, store, ret, lastSet, gone>>

VARIABLES
    \* BrowserPool (browser_pool.py)
    max_browsers, \* self.max_browsers
    semaphore,    \* the value of self.semaphore: the free slots
    browsers,     \* self.browsers, the idle list
    initialized,  \* self.initialized
    bstate,       \* per browser object: "none" (no such object), "open"
                  \* (connected) or "dead" (crashed, disconnected)
    ppc,          \* where each task is in create_page / close_page
    held,         \* the browser a task's local variable refers to, else 0
    checked_out,  \* browsers get_browser returned and release_browser has
                  \* not been given back
    closing,      \* the position of close_all's loop over self.browsers,
                  \* 0 while no close_all() is running
    stale         \* the browsers launched before a close_all() that completed

poolVars == <<max_browsers, semaphore, browsers, initialized, bstate, ppc,
              held, checked_out, closing, stale>>

VARIABLES
    \* HybridExtractor and BaseExtractor.extract_with_retry
    \* (base_extractor.py), for the requests on one platform and one url
    max_retries,        \* Config.MAX_RETRIES
    rate_limit_enabled, \* Config.RATE_LIMIT_ENABLED
    kind,               \* the registered extractor's extract_followers /
                        \* extract_engagement: "async" (coroutine functions,
                        \* as BaseExtractor declares them) or "sync" (plain
                        \* functions)
    registered,         \* platform in self.extractors
    clients,            \* the tasks that send requests
    opc,                \* where each task is in its request
    oper,               \* the operation a task's request is for
    retries,            \* the local retries of extract_with_retry
    osleep,             \* seconds left of a task's asyncio.sleep
    calls,              \* extractor calls made so far for the task's request
    grants,             \* tokens acquire() granted so far for the request
    first,              \* what the request's first extractor call yielded
    oret,               \* the request the last step completed and its result
    kpc,                \* where a task is in extract_complete_kpi_data:
                        \* "none", "followers", "between" or "engagement"
    kfol,               \* the local followers of extract_complete_kpi_data
    kres                \* the extract_complete_kpi_data call the last step
                        \* completed and its result

orchVars == <<max_retries, rate_limit_enabled, kind, registered, clients, opc,
              oper, retries, osleep, calls, grants, first, oret, kpc, kfol,
              kres>>

VARIABLES
    \* The result assembly of HybridExtractor.extract_complete_kpi_data
    followers,   \* what extract_followers returned: a count or Unknown
    engagement,  \* what extract_engagement returned: a dict or None
    result       \* the result dict, once assembled

rateVars == <<followers, engagement, result>>

VARIABLES
    \* HybridExtractor.extract_multiple_platforms
    urls,             \* the argument: (platform, url) in the dict's order
    parallel,         \* Config.PARALLEL_EXTRACTION
    mpc,              \* where the call is
    platform_results, \* per task of the gather, its result once it is done
    completed,        \* the tasks of the gather in the order they ended
    results,          \* the local results, a dict from platform to entry
    position,         \* the position of the sequential loop in urls
    running,          \* the platforms whose extraction started and has not ended
    delay             \* the seconds of the sleep in progress, 0 when none

multiVars ==
    <<urls, parallel, mpc, platform_results, completed, results, position,
      running, delay>>

VARIABLES
    \* TwitterExtractor / LinkedInExtractor: one profile visit
    site,            \* which extractor: "twitter" or "linkedin"
    page,            \* what the API and the profile page give
    got_followers,   \* what extract_followers returned, once called
    got_engagement   \* what extract_engagement returned, once called

estVars == <<site, page, got_followers, got_engagement>>

VARIABLES
    \* The follower-count parsers of the platform extractors
    strategy,   \* which parsing strategy of which extractor
    content,    \* the text the count is found in
    parsed      \* what the strategy returned, once applied

parseVars == <<strategy, content, parsed>>

VARIABLES
    \* BaseAPIClient.make_api_request of one client, for one GET endpoint
    api_cache_enabled,  \* Config.CACHE_ENABLED
    api_rate_limited,   \* Config.RATE_LIMIT_ENABLED
    api_cache,          \* the cache entry of the endpoint: a value or None
    retry_left,         \* seconds left of the wait the last 429 asked for
    sent,               \* requests sent to the platform so far
    response            \* what the last call saw and returned

apiVars == <<api_cache_enabled, api_rate_limited, api_cache, retry_left,
             sent, response>>

VARIABLES
    \* BaseAPIClient.extract_with_retry: one call
    x_max,      \* the max_retries of the call (the argument or MAX_RETRIES)
    x_pc,       \* where the call is
    x_retries,  \* the local retries
    x_calls,    \* calls of extraction_func so far
    x_last,     \* what the last call of extraction_func yielded
    x_wait,     \* the wait_time of the sleep in progress, in half seconds
    x_slept,    \* sleeps so far
    x_ret       \* the value returned, once returned

retryVars == <<x_max, x_pc, x_retries, x_calls, x_last, x_wait, x_slept,
               x_ret>>

VARIABLES
    \* KPIValidator and run_validation_tests
    v_tests,     \* per platform, the number of its test usernames
    v_platform,  \* the platform validate_all_platforms is at
    v_case,      \* the last test case: what the client gave, and the result
    v_results,   \* per platform, is_valid of its results so far
    v_report     \* the report, once generated

validVars == <<v_tests, v_platform, v_case, v_results, v_report>>

VARIABLES
    \* An observer of one RateLimiter over a time interval
    w_phase,     \* "off", "before" the interval starts, or "open"
    w_time,      \* seconds of the interval elapsed so far
    w_grants     \* acquire() calls that returned True within the interval

windowVars == <<w_phase, w_time, w_grants>>

VARIABLES
    \* The synchronous HybridExtractor.extract_followers / extract_engagement
    l_op,         \* which of the two methods is called
    l_registered, \* platform in self.extractors
    l_max,        \* self.max_retries
    l_pc,         \* "level1", "loop", "sleep" or "returned"
    l_attempt,    \* the loop variable attempt, 0 before the loop
    l_calls,      \* calls of the platform extractor so far
    l_fails,      \* those that returned None or raised
    l_last,       \* what the last call gave
    l_delays,     \* the arguments of the time.sleep calls so far, in order
    l_ret         \* what the method returned

legacyVars == <<l_op, l_registered, l_max, l_pc, l_attempt, l_calls, l_fails,
                l_last, l_delays, l_ret>>

vars ==
    <<limiterVars, cacheVars, poolVars, orchVars,
      rateVars, multiVars, estVars, parseVars, apiVars, retryVars,
      validVars, windowVars, legacyVars>>

\* What a step of one component leaves alone
outsideLimiter ==
    <<cacheVars, poolVars, orchVars, rateVars,
      multiVars, estVars, parseVars, apiVars, retryVars, validVars,
      windowVars, legacyVars>>
outsideCache ==
    <<limiterVars, poolVars, orchVars, rateVars,
      multiVars, estVars, parseVars, apiVars, retryVars, validVars,
      windowVars, legacyVars>>
outsidePool ==
    <<limiterVars, cacheVars, orchVars, rateVars,
      multiVars, estVars, parseVars, apiVars, retryVars, validVars,
      windowVars, legacyVars>>
outsideRate ==
    <<limiterVars, cacheVars, poolVars, orchVars,
      multiVars, estVars, parseVars, apiVars, retryVars, validVars,
      windowVars, legacyVars>>
outsideMulti ==
    <<limiterVars, cacheVars, poolVars, orchVars,
      rateVars, estVars, parseVars, apiVars, retryVars, validVars,
      windowVars, legacyVars>>
outsideEst ==
    <<limiterVars, cacheVars, poolVars, orchVars,
      rateVars, multiVars, parseVars, apiVars, retryVars, validVars,
      windowVars, legacyVars>>
outsideParse ==
    <<limiterVars, cacheVars, poolVars, orchVars,
      rateVars, multiVars, estVars, apiVars, retryVars, validVars,
      windowVars, legacyVars>>
outsideApi ==
    <<limiterVars, cacheVars, poolVars, orchVars,
      rateVars, multiVars, estVars, parseVars, retryVars, validVars,
      windowVars, legacyVars>>
outsideRetry ==
    <<limiterVars, cacheVars, poolVars, orchVars,
      rateVars, multiVars, estVars, parseVars, apiVars, validVars,
      windowVars, legacyVars>>
outsideValid ==
    <<limiterVars, cacheVars, poolVars, orchVars,
      rateVars, multiVars, estVars, parseVars, apiVars, retryVars,
      windowVars, legacyVars>>
outsideWindow ==
    <<limiterVars, cacheVars, poolVars, orchVars,
      rateVars, multiVars, estVars, parseVars, apiVars, retryVars,
      validVars, legacyVars>>
\* What a step of the RateLimiter that its observer sees leaves alone
outsideObserved ==
    <<cacheVars, poolVars, orchVars, rateVars,
      multiVars, estVars, parseVars, apiVars, retryVars, validVars,
      legacyVars>>
outsideLegacy ==
    <<limiterVars, cacheVars, poolVars, orchVars,
      rateVars, multiVars, estVars, parseVars, apiVars, retryVars,
      validVars, windowVars>>

\* ------------------------------------------------------------------------
\* RateLimiter
\* ------------------------------------------------------------------------
\* The longest interval observed, in seconds
MaxWindow == 3

\* The observer sees an acquire() that is going to return ok read the clock
\* (line 47): the call is placed in time at that reading, the one its
\* refill is computed from.
ObserveAcquire(ok) ==
    /\ w_grants' = IF w_phase = "open" /\ ok THEN w_grants + 1 ELSE w_grants
    /\ UNCHANGED <<w_phase, w_time>>

\* The observer sees a second pass; the interval ends after MaxWindow.
ObserveSecond ==
    IF w_phase = "open"
    THEN IF w_time < MaxWindow
         THEN w_time' = w_time + 1 /\ UNCHANGED <<w_phase, w_grants>>
         ELSE w_phase' = "off" /\ w_time' = 0 /\ w_grants' = 0
    ELSE UNCHANGED <<w_phase, w_time, w_grants>>

\* Mutation of Consume: a granted acquire() keeps the token.
Consume_free(tok) == tok

\* line 55: self.tokens -= 1
Consume(tok) == tok - per

\* No acquire() completed in the last step.
NoResult == [t |-> NoTask, ok |-> FALSE, wait |-> 0, looped |-> FALSE]

\* RateLimiter.__init__: tokens = max_tokens = burst, updated_at = now.
RateLimiter_init(r, p, b) ==
    /\ rate = r
    /\ per = p
    /\ max_tokens = b * p
    /\ tokens = b * p
    /\ elapsed = 0
    /\ lock = NoTask

\* Beyond this many seconds the refill of line 52 is capped whatever the
\* count was, so elapsed needs no larger value.
ElapsedCap == CeilDiv(max_tokens, rate)

\* Mutation of Refill: the cap at max_tokens is forgotten.
Refill_uncapped(tok, el) == tok + el * rate

\* line 52: min(self.max_tokens, self.tokens + elapsed * (self.rate / self.per))
Refill(tok, el) == Min(max_tokens, tok + el * rate)

\* Mutation of HasToken: any non-negative count passes.
HasToken_nonneg(tok) == tok >= 0

\* line 54: self.tokens >= 1
HasToken(tok) == tok >= per

\* line 59: (1 - self.tokens) * (self.per / self.rate), as the numerator
\* over rate: (per - tokens) / rate seconds.
WaitTime(tok) == per - tok

\* asyncio.sleep(wait_time) in whole seconds: at least wait_time.
SleepTicks(w) == CeilDiv(w, rate)

\* Mutation of LockFree: acquire() runs without the lock.
LockFree_unlocked == TRUE

\* line 46: async with self.lock may be entered
LockFree == lock = NoTask

\* Mutation of WaitDone: wait() returns after its first acquire().
WaitDone_always(ok) == TRUE

\* line 68: wait() returns on this result of acquire()
WaitDone(ok) == ok

LimiterInit ==
    /\ \E r \in 1..MaxRate, p \in 1..MaxPer, b \in 1..MaxBurst :
          RateLimiter_init(r, p, b)
    /\ pc = [t \in Tasks |-> "idle"]
    /\ mode = [t \in Tasks |-> "none"]
    /\ can_proceed = [t \in Tasks |-> FALSE]
    /\ timer = [t \in Tasks |-> 0]
    /\ taken = [t \in Tasks |-> 0]
    /\ looped = [t \in Tasks |-> FALSE]
    /\ capped = FALSE
    /\ last = NoResult
    /\ immediate = 0

\* A task calls limiter.acquire() directly (BaseExtractor.extract_with_retry,
\* PlatformRateLimiter.acquire) and reaches async with self.lock.
call_acquire(t) ==
    /\ UNCHANGED outsideLimiter
    /\ pc[t] = "idle"
    /\ pc' = [pc EXCEPT ![t] = "lock"]
    /\ mode' = [mode EXCEPT ![t] = "acquire"]
    /\ last' = NoResult
    /\ UNCHANGED <<rate, per, max_tokens, tokens, elapsed, lock, can_proceed,
                   timer, taken, looped, capped, immediate>>

\* A task calls limiter.wait() (PlatformRateLimiter.wait) and reaches the
\* async with self.lock of its first acquire().
call_wait(t) ==
    /\ UNCHANGED outsideLimiter
    /\ pc[t] = "idle"
    /\ pc' = [pc EXCEPT ![t] = "lock"]
    /\ mode' = [mode EXCEPT ![t] = "wait"]
    /\ last' = NoResult
    /\ UNCHANGED <<rate, per, max_tokens, tokens, elapsed, lock, can_proceed,
                   timer, taken, looped, capped, immediate>>

\* acquire(), lines 46-54: enter the lock, read the clock, refill, test the
\* count.
acquire_enter(t) ==
    /\ UNCHANGED outsideObserved
    /\ ObserveAcquire(HasToken(Refill(tokens, elapsed)))
    /\ pc[t] = "lock"
    /\ LockFree
    /\ lock' = t
    /\ tokens' = Refill(tokens, elapsed)
    /\ elapsed' = 0
    /\ can_proceed' = [can_proceed EXCEPT ![t] = HasToken(tokens')]
    /\ capped' = (tokens + elapsed * rate > max_tokens)
    /\ pc' = [pc EXCEPT ![t] = "take"]
    /\ last' = NoResult
    /\ UNCHANGED <<rate, per, max_tokens, mode, timer, taken, looped,
                   immediate>>

\* acquire(), lines 55-60: consume a token or compute the wait; the return
\* leaves the async with block and frees the lock.  The caller continues
\* without suspending: a direct acquire() is over, wait() (lines 68-72)
\* returns on success and otherwise starts asyncio.sleep(wait_time).
acquire_take(t) ==
    /\ UNCHANGED outsideLimiter
    /\ pc[t] = "take"
    /\ LET ok == can_proceed[t]
           w == IF ok THEN 0 ELSE WaitTime(tokens)
           over == mode[t] = "acquire" \/ WaitDone(ok)
       IN /\ tokens' = IF ok THEN Consume(tokens) ELSE tokens
          /\ last' = [t |-> t, ok |-> ok, wait |-> w,
                      looped |-> looped[t]]
          /\ immediate' = IF ok /\ immediate # -1
                          THEN Min(immediate + 1, MaxBurst + 2)
                          ELSE immediate
          /\ pc' = [pc EXCEPT ![t] = IF over THEN "idle" ELSE "sleep"]
          /\ mode' = [mode EXCEPT ![t] = IF over THEN "none" ELSE @]
          /\ taken' = [taken EXCEPT ![t] =
                          IF over THEN 0 ELSE IF ok THEN Min(@ + 1, 2) ELSE @]
          /\ timer' = [timer EXCEPT ![t] = IF over THEN 0 ELSE SleepTicks(w)]
          /\ looped' = [looped EXCEPT ![t] = ~over]
    /\ capped' = FALSE
    /\ lock' = IF lock = t THEN NoTask ELSE lock
    /\ can_proceed' = [can_proceed EXCEPT ![t] = FALSE]
    /\ UNCHANGED <<rate, per, max_tokens, elapsed>>

\* wait(), line 72 -> 67: the sleep is over, loop to acquire() again.
wait_wake(t) ==
    /\ UNCHANGED outsideLimiter
    /\ pc[t] = "sleep"
    /\ timer[t] = 0
    /\ pc' = [pc EXCEPT ![t] = "lock"]
    /\ last' = NoResult
    /\ UNCHANGED <<rate, per, max_tokens, tokens, elapsed, lock, mode,
                   can_proceed, timer, taken, looped, capped, immediate>>

\* One second of time.monotonic() passes.
Tick ==
    /\ UNCHANGED outsideObserved
    /\ ObserveSecond
    /\ elapsed' = Min(elapsed + 1, ElapsedCap)
    /\ timer' = [t \in Tasks |-> IF timer[t] > 0 THEN timer[t] - 1 ELSE 0]
    /\ immediate' = -1
    /\ last' = NoResult
    /\ UNCHANGED <<rate, per, max_tokens, tokens, lock, pc, mode, can_proceed,
                   taken, looped, capped>>

\* The observed interval starts, at any moment of the execution.
open_window ==
    /\ UNCHANGED outsideWindow
    /\ w_phase = "before"
    /\ w_phase' = "open"
    /\ UNCHANGED <<w_time, w_grants>>

WindowInit ==
    /\ w_phase = "before"
    /\ w_time = 0
    /\ w_grants = 0

WindowOff ==
    /\ w_phase = "off"
    /\ w_time = 0
    /\ w_grants = 0

LimiterNext ==
    \/ \E t \in Tasks : call_acquire(t)
    \/ \E t \in Tasks : call_wait(t)
    \/ \E t \in Tasks : acquire_enter(t)
    \/ \E t \in Tasks : acquire_take(t)
    \/ \E t \in Tasks : wait_wake(t)
    \/ Tick

\* ------------------------------------------------------------------------
\* CacheManager
\* ------------------------------------------------------------------------
Insts == {"A", "B"}      \* CacheManager instances sharing CACHE_DIR / Redis
Keys == {"k1", "k2"}
Values == 1..MaxVal
None == 0
Backends == {"memory", "file", "redis"}

\* What a call of the extractor's method yields: data, None, or an
\* exception.
Raises == -1
Outcomes == Values \cup {None, Raises}
NotCalled == -2

\* What goes wrong in the backend during a call ("none": nothing):
\*  "stat"   os.path.getmtime raises (the file vanished after os.path.exists)
\*  "remove" os.remove raises
\*  "read"   open / json.load raises
\*  "write"  open / json.dump raises
\*  "conn"   the Redis client cannot be created or reached
Faults == {"none", "stat", "remove", "read", "write", "conn"}

Absent == [has |-> FALSE, value |-> None, age |-> 0]
Entry(v, a) == [has |-> TRUE, value |-> v, age |-> a]

NoRet == [op |-> "none", inst |-> "A", key |-> "k1", val |-> None,
          raised |-> FALSE, tier |-> "none"]
Ret(o, i, k, v, r, tr) ==
    [op |-> o, inst |-> i, key |-> k, val |-> v, raised |-> r, tier |-> tr]

\* json.dumps / json.dump (lines 207, 218) and json.loads / json.load
\* (lines 176, 195): the stored text of a value, and the value of a text.
json_dumps(v) == <<"json", v>>
json_loads(text) == text[2]

\* line 161: time.time() - entry["timestamp"] > self.ttl
MemExpired(e) == e.age > ttl

\* _get_from_memory, lines 155-165: the value returned
get_from_memory(i, k) ==
    IF mem[i][k].has /\ ~MemExpired(mem[i][k]) THEN mem[i][k].value ELSE None

\* _get_from_memory, line 162: an expired entry is deleted
MemAfterLookup(i, k) ==
    IF mem[i][k].has /\ MemExpired(mem[i][k])
    THEN [mem EXCEPT ![i][k] = Absent]
    ELSE mem

\* line 189: time.time() - os.path.getmtime(file_path) > self.ttl
FileExpired(e) == e.age > ttl

\* _get_from_file, lines 183-198: [val, raised, store after]
get_from_file(k, f) ==
    IF ~store[k].has THEN [val |-> None, raised |-> FALSE, st |-> store]
    ELSE IF f = "stat" THEN [val |-> None, raised |-> TRUE, st |-> store]
    ELSE IF FileExpired(store[k])
         THEN IF f = "remove"
              THEN [val |-> None, raised |-> TRUE, st |-> store]
              ELSE [val |-> None, raised |-> FALSE,
                    st |-> [store EXCEPT ![k] = Absent]]
    ELSE IF f = "read" THEN [val |-> None, raised |-> FALSE, st |-> store]
    ELSE [val |-> json_loads(store[k].value), raised |-> FALSE, st |-> store]

\* _get_from_redis, lines 169-179: every exception is caught
get_from_redis(k, f) ==
    IF f = "conn" \/ ~store[k].has
    THEN [val |-> None, raised |-> FALSE, st |-> store]
    ELSE [val |-> json_loads(store[k].value), raised |-> FALSE, st |-> store]

\* _set_in_file (216-220) / _set_in_redis (202-210): errors are logged
set_in_backend(k, v, f) ==
    IF backend = "file" /\ f # "write"
    THEN [store EXCEPT ![k] = Entry(json_dumps(v), 0)]
    ELSE IF backend = "redis" /\ f # "conn"
    THEN [store EXCEPT ![k] = Entry(json_dumps(v), 0)]
    ELSE store

\* Mutation of delete_from_backend: the backend entry is left in place.
delete_from_backend_skipped(k, f) == store

\* _delete_from_file (232-238) / _delete_from_redis (224-228)
delete_from_backend(k, f) ==
    IF backend = "file" /\ store[k].has /\ f # "remove"
    THEN [store EXCEPT ![k] = Absent]
    ELSE IF backend = "redis" /\ f # "conn"
    THEN [store EXCEPT ![k] = Absent]
    ELSE store

\* _clear_files (250-256) / _clear_redis (242-246)
clear_backend(f) ==
    IF backend = "file" /\ f # "remove" THEN [k \in Keys |-> Absent]
    ELSE IF backend = "redis" /\ f # "conn" THEN [k \in Keys |-> Absent]
    ELSE store

\* The deployments checked: two instances sharing one backend and using
\* one key, and one instance using two keys.
Deployments == {<<Insts, {"k1"}>>, <<{"A"}, Keys>>}

\* CacheManager.__init__ of every instance under one configuration
CacheManager_init(en, t, b, d) ==
    /\ enabled = en
    /\ insts = d[1]
    /\ keys = d[2]
    /\ ttl = t
    /\ backend = b
    /\ mem = [i \in Insts |-> [k \in Keys |-> Absent]]
    /\ store = [k \in Keys |-> Absent]
    /\ ret = NoRet
    /\ lastSet = [k \in Keys |-> Absent]
    /\ gone = [i \in Insts |-> {}]

CacheInit ==
    \E en \in BOOLEAN, t \in 1..MaxTtl, b \in Backends, d \in Deployments :
        CacheManager_init(en, t, b, d)

\* The cache as constructed by default, while another component is checked.
CacheOff == CacheManager_init(TRUE, 1, "memory", <<{"A"}, {"k1"}>>)

\* Mutation of MemoryFirst: the in-process map is skipped.
MemoryFirst_skipped(v) == FALSE

\* line 59: if memory_result is not None
MemoryFirst(v) == v # None

\* CacheManager.get, lines 54-82
get(i, k, f) ==
    LET mv == get_from_memory(i, k)
        m1 == MemAfterLookup(i, k)
        b == IF backend = "file" THEN get_from_file(k, f)
             ELSE get_from_redis(k, f)
    IN IF ~enabled
       THEN /\ ret' = Ret("get", i, k, None, FALSE, "none")
            /\ UNCHANGED <<mem, store>>
       ELSE IF MemoryFirst(mv)
       THEN /\ ret' = Ret("get", i, k, mv, FALSE, "memory")
            /\ UNCHANGED <<mem, store>>
       ELSE IF backend = "memory"
       THEN /\ ret' = Ret("get", i, k, None, FALSE, "none")
            /\ mem' = m1
            /\ UNCHANGED store
       ELSE /\ ret' = Ret("get", i, k, b.val, b.raised, "backend")
            /\ store' = b.st
            /\ mem' = IF b.val # None
                      THEN [m1 EXCEPT ![i][k] = Entry(b.val, 0)]
                      ELSE m1

cache_get(i, k, f) ==
    /\ UNCHANGED outsideCache
    /\ get(i, k, f)
    /\ UNCHANGED <<enabled, ttl, backend, insts, keys, lastSet, gone>>

\* CacheManager.set, lines 92-107
set(i, k, v, f) ==
    /\ IF ~enabled
       THEN UNCHANGED <<mem, store, lastSet, gone>>
       ELSE /\ mem' = [mem EXCEPT ![i][k] = Entry(v, 0)]
            /\ store' = set_in_backend(k, v, f)
            /\ lastSet' = [lastSet EXCEPT ![k] = Entry(v, 0)]
            /\ gone' = [j \in Insts |-> gone[j] \ {k}]
    /\ ret' = Ret("set", i, k, v, FALSE, "none")

cache_set(i, k, v, f) ==
    /\ UNCHANGED outsideCache
    /\ set(i, k, v, f)
    /\ UNCHANGED <<enabled, ttl, backend, insts, keys>>

\* CacheManager.delete, lines 116-129
cache_delete(i, k, f) ==
    /\ UNCHANGED outsideCache
    /\ IF ~enabled
       THEN UNCHANGED <<mem, store, lastSet, gone>>
       ELSE /\ mem' = [mem EXCEPT ![i][k] = Absent]
            /\ store' = delete_from_backend(k, f)
            /\ lastSet' = [lastSet EXCEPT ![k] = Absent]
            /\ gone' = [gone EXCEPT ![i] = @ \cup {k}]
    /\ ret' = Ret("delete", i, k, None, FALSE, "none")
    /\ UNCHANGED <<enabled, ttl, backend, insts, keys>>

\* CacheManager.clear, lines 133-145
cache_clear(i, f) ==
    /\ UNCHANGED outsideCache
    /\ IF ~enabled
       THEN UNCHANGED <<mem, store, lastSet, gone>>
       ELSE /\ mem' = [mem EXCEPT ![i] = [k \in Keys |-> Absent]]
            /\ store' = clear_backend(f)
            /\ lastSet' = [k \in Keys |-> Absent]
            /\ gone' = [gone EXCEPT ![i] = keys]
    /\ ret' = Ret("clear", i, "k1", None, FALSE, "none")
    /\ UNCHANGED <<enabled, ttl, backend, insts, keys>>

Older(e) == IF e.has THEN [e EXCEPT !.age = Min(e.age + 1, ttl + 1)] ELSE e

\* One second of time.time() passes; Redis drops the keys whose setex
\* expiry (line 204-208) is reached.
CacheTick ==
    /\ UNCHANGED outsideCache
    /\ mem' = [i \in Insts |-> [k \in Keys |-> Older(mem[i][k])]]
    /\ store' = [k \in Keys |->
                   IF backend = "redis" /\ Older(store[k]).age >= ttl
                   THEN Absent ELSE Older(store[k])]
    /\ lastSet' = [k \in Keys |-> Older(lastSet[k])]
    /\ ret' = NoRet
    /\ UNCHANGED <<enabled, ttl, backend, insts, keys, gone>>

\* The calls with a backend that works
CacheNext ==
    \/ \E i \in insts, k \in keys : cache_get(i, k, "none")
    \/ \E i \in insts, k \in keys, v \in Values : cache_set(i, k, v, "none")
    \/ \E i \in insts, k \in keys : cache_delete(i, k, "none")
    \/ \E i \in insts : cache_clear(i, "none")
    \/ CacheTick

\* The calls with a backend that may fail
CacheFaultyNext ==
    \/ \E i \in insts, k \in keys, f \in Faults : cache_get(i, k, f)
    \/ \E i \in insts, k \in keys, v \in Values, f \in Faults :
          cache_set(i, k, v, f)
    \/ \E i \in insts, k \in keys, f \in Faults : cache_delete(i, k, f)
    \/ \E i \in insts, f \in Faults : cache_clear(i, f)
    \/ CacheTick

\* ------------------------------------------------------------------------
\* BrowserPool
\* ------------------------------------------------------------------------
\* Browser objects; one that nothing refers to any more is collected and
\* its name is free again.
BrowserIds == 1..(MaxPool + 1)
NoBrowser == 0

Range(q) == {q[n] : n \in 1..Len(q)}
Referenced == Range(browsers) \cup {held[t] : t \in Tasks}
FreshBrowser == CHOOSE b \in BrowserIds \ Referenced :
                    \A c \in BrowserIds \ Referenced : b <= c

\* The states of the objects nothing refers to are forgotten.
Collect(bs, idle, h) ==
    [b \in BrowserIds |->
        IF b \in Range(idle) \cup {h[t] : t \in Tasks} THEN bs[b] ELSE "none"]

\* Of a set of browsers, those something still refers to.
StillReferenced(bs, idle, h) == bs \cap (Range(idle) \cup {h[t] : t \in Tasks})

\* BrowserPool.__init__, lines 30-35
BrowserPool_init(n) ==
    /\ max_browsers = n
    /\ semaphore = n
    /\ browsers = <<>>
    /\ initialized = FALSE
    /\ bstate = [b \in BrowserIds |-> "none"]
    /\ ppc = [t \in Tasks |-> "idle"]
    /\ held = [t \in Tasks |-> NoBrowser]
    /\ checked_out = 0
    /\ closing = 0
    /\ stale = {}

PoolInit == \E n \in 1..MaxPool : BrowserPool_init(n)

\* The pool as constructed, while another component is checked.
PoolOff == BrowserPool_init(1)

\* create_page, line 108 -> get_browser, lines 50-51: initialize(), then
\* wait for the semaphore.
create_page_call(t) ==
    /\ UNCHANGED outsidePool
    /\ UNCHANGED <<closing, stale>>
    /\ ppc[t] = "idle"
    /\ initialized' = TRUE
    /\ ppc' = [ppc EXCEPT ![t] = "semaphore"]
    /\ UNCHANGED <<max_browsers, semaphore, browsers, bstate, held,
                   checked_out>>

\* Mutation of SemaphoreFree: the semaphore never blocks.
SemaphoreFree_always == TRUE

\* line 51: await self.semaphore.acquire() proceeds
SemaphoreFree == semaphore > 0

\* get_browser, lines 51-53 and 70-74: take a slot; with an idle browser,
\* pop it and return it, else go on to launch one.
get_browser_acquire(t) ==
    /\ UNCHANGED outsidePool
    /\ UNCHANGED <<closing, stale>>
    /\ ppc[t] = "semaphore"
    /\ SemaphoreFree
    /\ semaphore' = semaphore - 1
    /\ IF browsers = <<>>
       THEN /\ ppc' = [ppc EXCEPT ![t] = "launch"]
            /\ UNCHANGED <<browsers, held, checked_out>>
       ELSE /\ held' = [held EXCEPT ![t] = browsers[Len(browsers)]]
            /\ browsers' = SubSeq(browsers, 1, Len(browsers) - 1)
            /\ checked_out' = Min(checked_out + 1, MaxPool + 2)
            /\ ppc' = [ppc EXCEPT ![t] = "context"]
    /\ UNCHANGED <<max_browsers, initialized, bstate>>

\* get_browser, lines 55-69 and 74: chromium.launch returns a new browser,
\* or raises out of get_browser and create_page.
get_browser_launch(t, ok) ==
    /\ UNCHANGED outsidePool
    /\ UNCHANGED <<closing, stale>>
    /\ ppc[t] = "launch"
    /\ IF ok
       THEN /\ BrowserIds \ Referenced # {}
            /\ held' = [held EXCEPT ![t] = FreshBrowser]
            /\ bstate' = [bstate EXCEPT ![FreshBrowser] = "open"]
            /\ checked_out' = Min(checked_out + 1, MaxPool + 2)
            /\ ppc' = [ppc EXCEPT ![t] = "context"]
       ELSE /\ ppc' = [ppc EXCEPT ![t] = "idle"]
            /\ UNCHANGED <<held, bstate, checked_out>>
    /\ UNCHANGED <<max_browsers, semaphore, browsers, initialized>>

\* create_page, lines 115-144: new_context, add_init_script and new_page
\* on the browser; on a browser that is gone they raise out of create_page,
\* which has no handler.
create_page_context(t) ==
    /\ UNCHANGED outsidePool
    /\ UNCHANGED closing
    /\ ppc[t] = "context"
    /\ IF bstate[held[t]] = "open"
       THEN /\ ppc' = [ppc EXCEPT ![t] = "page"]
            /\ UNCHANGED <<held, bstate, stale>>
       ELSE /\ ppc' = [ppc EXCEPT ![t] = "idle"]
            /\ held' = [held EXCEPT ![t] = NoBrowser]
            /\ bstate' = Collect(bstate, browsers, held')
            /\ stale' = StillReferenced(stale, browsers, held')
    /\ UNCHANGED <<max_browsers, semaphore, browsers, initialized,
                   checked_out>>

\* close_page, lines 153-156: await page.context.close()
close_page_call(t) ==
    /\ UNCHANGED outsidePool
    /\ UNCHANGED <<closing, stale>>
    /\ ppc[t] = "page"
    /\ ppc' = [ppc EXCEPT ![t] = "closing"]
    /\ UNCHANGED <<max_browsers, semaphore, browsers, initialized, bstate,
                   held, checked_out>>

\* release_browser, lines 84-93: the browser goes back to the idle list
\* unless reading browser.contexts raised.
release_idle(b, usable) == IF usable THEN Append(browsers, b) ELSE browsers

\* release_browser, line 95
release_slot == semaphore + 1

\* close_page, lines 156-164, and release_browser, lines 84-95: whether
\* context.close() returned or raised, release_browser runs once.  Reading
\* browser.contexts of a connected browser succeeds; of a dead one it may
\* raise or not.
close_page_release(t, raised, usable) ==
    /\ UNCHANGED outsidePool
    /\ UNCHANGED closing
    /\ ppc[t] = "closing"
    /\ raised => bstate[held[t]] = "dead"
    /\ ~usable => bstate[held[t]] = "dead"
    /\ browsers' = release_idle(held[t], usable)
    /\ semaphore' = release_slot
    /\ checked_out' = checked_out - 1
    /\ held' = [held EXCEPT ![t] = NoBrowser]
    /\ bstate' = Collect(bstate, browsers', held')
    /\ stale' = StillReferenced(stale, browsers', held')
    /\ ppc' = [ppc EXCEPT ![t] = "idle"]
    /\ UNCHANGED <<max_browsers, initialized>>

\* A caller that is going to call close_page(page) twice: its first call,
\* lines 153-164, releases the browser as close_page_release does, and the
\* caller keeps the page, which refers to the browser.  Callers do so only
\* while the pool has no slot and no idle entry in excess yet, which keeps
\* both counts finite.
close_page_first(t, raised, usable) ==
    /\ UNCHANGED outsidePool
    /\ UNCHANGED <<closing, stale>>
    /\ ppc[t] = "closing"
    /\ semaphore < max_browsers
    /\ Len(browsers) < max_browsers
    /\ raised => bstate[held[t]] = "dead"
    /\ ~usable => bstate[held[t]] = "dead"
    /\ browsers' = release_idle(held[t], usable)
    /\ semaphore' = release_slot
    /\ checked_out' = checked_out - 1
    /\ ppc' = [ppc EXCEPT ![t] = "closed"]
    /\ UNCHANGED <<max_browsers, initialized, bstate, held>>

\* close_page(page) called again for the page already closed, lines
\* 153-164: page.context.browser is the same browser; whether closing the
\* closed context returns or raises, release_browser runs once more, and
\* nothing in lines 84-95 tells that the browser was released before.
close_page_again(t, usable) ==
    /\ UNCHANGED outsidePool
    /\ UNCHANGED closing
    /\ ppc[t] = "closed"
    /\ ~usable => bstate[held[t]] = "dead"
    /\ browsers' = release_idle(held[t], usable)
    /\ semaphore' = release_slot
    /\ held' = [held EXCEPT ![t] = NoBrowser]
    /\ bstate' = Collect(bstate, browsers', held')
    /\ stale' = StillReferenced(stale, browsers', held')
    /\ ppc' = [ppc EXCEPT ![t] = "idle"]
    /\ UNCHANGED <<max_browsers, initialized, checked_out>>

\* A browser process crashes or loses its connection.
browser_crash(b) ==
    /\ UNCHANGED outsidePool
    /\ UNCHANGED <<closing, stale>>
    /\ bstate[b] = "open"
    /\ bstate' = [bstate EXCEPT ![b] = "dead"]
    /\ UNCHANGED <<max_browsers, semaphore, browsers, initialized, ppc, held,
                   checked_out>>

\* close_all, line 168: a shutdown starts its loop over self.browsers.
close_all_call ==
    /\ UNCHANGED outsidePool
    /\ closing = 0
    /\ closing' = 1
    /\ UNCHANGED <<max_browsers, semaphore, browsers, initialized, bstate, ppc,
                   held, checked_out, stale>>

\* close_all, lines 170-174: await browser.close() on the next browser of
\* the idle list as the list is now; an exception is logged.
close_all_browser ==
    /\ UNCHANGED outsidePool
    /\ closing \in 1..Len(browsers)
    /\ bstate' = [bstate EXCEPT ![browsers[closing]] = "dead"]
    /\ closing' = closing + 1
    /\ UNCHANGED <<max_browsers, semaphore, browsers, initialized, ppc, held,
                   checked_out, stale>>

\* await self.playwright.stop(), line 180: the browsers still connected
\* stay as they are or lose their connection with the driver.
playwright_stop(bs, kills) ==
    [b \in BrowserIds |-> IF kills /\ bs[b] = "open" THEN "dead" ELSE bs[b]]

\* close_all, lines 176-181: the loop is over; the idle list is replaced by
\* an empty one and playwright is stopped.  Only the browsers that were in
\* the idle list have been closed.
close_all_finish(kills) ==
    /\ UNCHANGED outsidePool
    /\ closing > Len(browsers)
    /\ browsers' = <<>>
    /\ initialized' = FALSE
    /\ closing' = 0
    /\ bstate' = Collect(IF initialized THEN playwright_stop(bstate, kills)
                         ELSE bstate, <<>>, held)
    /\ stale' = {held[t] : t \in Tasks} \ {NoBrowser}
    /\ UNCHANGED <<max_browsers, semaphore, ppc, held, checked_out>>

PoolNext ==
    \/ \E t \in Tasks : create_page_call(t)
    \/ \E t \in Tasks : get_browser_acquire(t)
    \/ \E t \in Tasks, ok \in BOOLEAN : get_browser_launch(t, ok)
    \/ \E t \in Tasks : create_page_context(t)
    \/ \E t \in Tasks : close_page_call(t)
    \/ \E t \in Tasks, raised \in BOOLEAN, usable \in BOOLEAN :
          close_page_release(t, raised, usable)
    \/ \E b \in BrowserIds : browser_crash(b)
    \/ close_all_call
    \/ close_all_browser
    \/ \E kills \in BOOLEAN : close_all_finish(kills)

\* The pool with callers that may close a page twice, and no close_all()
PoolTwiceNext ==
    \/ \E t \in Tasks : create_page_call(t)
    \/ \E t \in Tasks : get_browser_acquire(t)
    \/ \E t \in Tasks, ok \in BOOLEAN : get_browser_launch(t, ok)
    \/ \E t \in Tasks : create_page_context(t)
    \/ \E t \in Tasks : close_page_call(t)
    \/ \E t \in Tasks, raised \in BOOLEAN, usable \in BOOLEAN :
          close_page_release(t, raised, usable)
    \/ \E b \in BrowserIds : browser_crash(b)
    \/ \E t \in Tasks, raised \in BOOLEAN, usable \in BOOLEAN :
          close_page_first(t, raised, usable)
    \/ \E t \in Tasks, usable \in BOOLEAN : close_page_again(t, usable)

\* ------------------------------------------------------------------------
\* HybridExtractor.extract_complete_kpi_data: the result dict
\* ------------------------------------------------------------------------
MaxFollowers == 8
MaxLikes == 3

\* A follower count of 0 is a value here, so None is kept apart from it.
Unknown == -1
FollowerCounts == {Unknown} \cup 0..MaxFollowers \cup {1000}
Likes == {Unknown} \cup 0..MaxLikes \cup {30}
Comments == {Unknown} \cup 0..MaxLikes \cup {20}

\* What extract_engagement returns: None, or a dict with some of the keys
\* and, for avg_likes and avg_comments, their values: a number, or None as
\* in the dict InstagramExtractor._extract_engagement_from_posts returns
\* when no post could be opened.
EngagementKeys == {"avg_likes", "avg_comments", "avg_shares"}
NoEngagement == [none |-> TRUE, keys |-> {}, avg_likes |-> 0, avg_comments |-> 0]
Engagements ==
    {NoEngagement} \cup
    {[none |-> FALSE, keys |-> ks, avg_likes |-> l, avg_comments |-> c] :
        ks \in SUBSET EngagementKeys,
        l \in Likes, c \in Comments}

\* The result dict before lines 332-345 filled it in
Pending == [done |-> FALSE, followers |-> Unknown, has_rate |-> FALSE,
            engagement_rate |-> 0, success |-> FALSE, error |-> FALSE]

\* Mutation of FollowersTruthy: only None is refused.
FollowersTruthy_zero(f) == f # Unknown

\* line 341: `followers and ...`: not None and not 0
FollowersTruthy(f) == f # Unknown /\ f # 0

\* line 337 / 341: `engagement`: not None and not an empty dict
EngagementTruthy(e) == ~e.none /\ e.keys # {}

\* line 341: the condition under which the rate is computed
RateComputed(f, e) ==
    /\ FollowersTruthy(f)
    /\ EngagementTruthy(e)
    /\ "avg_likes" \in e.keys
    /\ "avg_comments" \in e.keys

\* round(x, 2) of x = n / d percent, in hundredths of a percent: the
\* nearest integer to 100 * n / d, a tie going to the even one.
RoundHundredths(n, d) ==
    LET q == (100 * n) \div d
        r == (100 * n) % d
    IN IF 2 * r < d THEN q
       ELSE IF 2 * r > d THEN q + 1
       ELSE IF q % 2 = 0 THEN q ELSE q + 1

\* line 343: round((total_engagement / followers) * 100, 2), in hundredths
\* of a percent
EngagementRate(total_engagement, f) == RoundHundredths(total_engagement * 100, f)

\* line 342: engagement["avg_likes"] + engagement["avg_comments"] raises
\* TypeError when one of them is None.
SumRaises(e) == e.avg_likes = Unknown \/ e.avg_comments = Unknown

\* lines 332-356: the result of extract_complete_kpi_data for what the two
\* extractions returned.  The sum of line 342 raises TypeError on None and
\* the division of line 343 by 0 raises ZeroDivisionError; line 352 turns
\* either into result["error"] and line 345 is not reached.
KpiResult(f, e) ==
    LET total_engagement == e.avg_likes + e.avg_comments
    IN IF RateComputed(f, e) /\ (SumRaises(e) \/ f = 0)
       THEN [done |-> TRUE, followers |-> f,
             has_rate |-> FALSE, engagement_rate |-> 0, success |-> FALSE,
             error |-> TRUE]
       ELSE [done |-> TRUE, followers |-> f,
             has_rate |-> RateComputed(f, e),
             engagement_rate |-> IF RateComputed(f, e)
                                 THEN EngagementRate(total_engagement, f)
                                 ELSE 0,
             success |-> (f # Unknown \/ ~e.none),
             error |-> FALSE]

RateInit ==
    /\ followers \in FollowerCounts
    /\ engagement \in Engagements
    /\ result = Pending

\* The result assembly while another component is checked.
RateOff ==
    /\ followers = Unknown
    /\ engagement = NoEngagement
    /\ result = Pending

\* extract_complete_kpi_data, lines 332-356, once both extractions returned
assemble_result ==
    /\ UNCHANGED outsideRate
    /\ ~result.done
    /\ result' = KpiResult(followers, engagement)
    /\ UNCHANGED <<followers, engagement>>

RateNext == assemble_result

\* ------------------------------------------------------------------------
\* HybridExtractor.extract_multiple_platforms
\* ------------------------------------------------------------------------
MaxPlatforms == 3

\* line 406: random.uniform(3, 8), in whole seconds
DelayLow == 3
DelayHigh == 8

Platforms == 1..MaxPlatforms
NoUrl == ""
Urls == {NoUrl, "u1", "u2"}

\* The urls argument: a dict, i.e. items with distinct keys in their
\* insertion order.
UrlDicts ==
    UNION {{[i \in 1..n |-> [platform |-> i, url |-> f[i]]] :
                f \in [1..n -> Urls]} : n \in 0..MaxPlatforms}

\* urls[platform]
UrlOf(us, p) == us[CHOOSE i \in DOMAIN us : us[i].platform = p].url

\* What a task of extract_complete_kpi_data(platform, url) ends with: the
\* result dict of lines 319-356, or an exception that left the coroutine.
NotDone == [kind |-> "pending", platform |-> 0, url |-> NoUrl,
            success |-> FALSE, error |-> FALSE]
Raised == [kind |-> "exception", platform |-> 0, url |-> NoUrl,
           success |-> FALSE, error |-> TRUE]
KpiData(p, u, ok) == [kind |-> "dict", platform |-> p, url |-> u,
                      success |-> ok, error |-> FALSE]
TaskResults(p, u) == {KpiData(p, u, ok) : ok \in BOOLEAN} \cup {Raised}

\* lines 389-395: the entry written for a task that raised
ErrorEntry(p, u) == [kind |-> "dict", platform |-> p, url |-> u,
                     success |-> FALSE, error |-> TRUE]

\* lines 378-380 and line 386: the items with a truthy url, in dict order
Requested(us) == SelectSeq(us, LAMBDA it : it.url # NoUrl)

\* Mutation of ResultAt: every platform is given the first task's result.
ResultAt_first(rs, i) == rs[1]

\* lines 387 and 397: platform_results[i]
ResultAt(rs, i) == rs[i]

\* lines 386-397: the entry of the i-th requested platform
PlatformEntry(us, rs, i) ==
    LET it == Requested(us)[i]
    IN IF ResultAt(rs, i).kind = "exception"
       THEN ErrorEntry(it.platform, UrlOf(us, it.platform))
       ELSE ResultAt(rs, i)

\* lines 386-397: results after the loop over the requested platforms
Assembled(us, rs) ==
    LET req == Requested(us)
    IN [p \in {req[i].platform : i \in DOMAIN req} |->
           PlatformEntry(us, rs, CHOOSE i \in DOMAIN req : req[i].platform = p)]

\* d[k] = v of a dict d
Put(d, k, v) == [x \in DOMAIN d \cup {k} |-> IF x = k THEN v ELSE d[x]]

\* lines 370-375 of a call with urls us under PARALLEL_EXTRACTION = par
MultiInit ==
    /\ urls \in UrlDicts
    /\ parallel \in BOOLEAN
    /\ mpc = "idle"
    /\ platform_results = <<>>
    /\ completed = <<>>
    /\ results = <<>>
    /\ position = 0
    /\ running = {}
    /\ delay = 0

\* extract_multiple_platforms while another component is checked.
MultiOff ==
    /\ urls = <<>>
    /\ parallel = TRUE
    /\ mpc = "idle"
    /\ platform_results = <<>>
    /\ completed = <<>>
    /\ results = <<>>
    /\ position = 0
    /\ running = {}
    /\ delay = 0

\* lines 370-383: results = {}, and either the tasks are handed to
\* asyncio.gather or the sequential loop starts
multi_call ==
    /\ UNCHANGED outsideMulti
    /\ mpc = "idle"
    /\ IF parallel
       THEN /\ mpc' = "gather"
            /\ platform_results' =
                   [i \in 1..Len(Requested(urls)) |-> NotDone]
            /\ position' = 0
            /\ running' = {Requested(urls)[i].platform :
                               i \in 1..Len(Requested(urls))}
       ELSE /\ mpc' = "sequential"
            /\ platform_results' = <<>>
            /\ position' = 1
            /\ running' = {}
    /\ results' = <<>>
    /\ UNCHANGED <<urls, parallel, completed, delay>>

\* One task of the gather ends, in whatever order the event loop runs them;
\* gather(return_exceptions=True) keeps its result at the task's position.
task_done(i, r) ==
    /\ UNCHANGED outsideMulti
    /\ mpc = "gather"
    /\ i \in DOMAIN platform_results
    /\ platform_results[i] = NotDone
    /\ r \in TaskResults(Requested(urls)[i].platform, Requested(urls)[i].url)
    /\ platform_results' = [platform_results EXCEPT ![i] = r]
    /\ completed' = Append(completed, i)
    /\ running' = running \ {Requested(urls)[i].platform}
    /\ UNCHANGED <<urls, parallel, mpc, results, position, delay>>

\* lines 383-397 and 415: the gather returns once every task ended, the
\* results are assembled and returned
gather_return ==
    /\ UNCHANGED outsideMulti
    /\ mpc = "gather"
    /\ \A i \in DOMAIN platform_results : platform_results[i] # NotDone
    /\ results' = Assembled(urls, platform_results)
    /\ mpc' = "returned"
    /\ UNCHANGED <<urls, parallel, platform_results, completed, position,
                   running, delay>>

\* lines 400-401: an item of the sequential loop whose url is falsy
sequential_skip ==
    /\ UNCHANGED outsideMulti
    /\ mpc = "sequential"
    /\ position <= Len(urls)
    /\ urls[position].url = NoUrl
    /\ position' = position + 1
    /\ UNCHANGED <<urls, parallel, mpc, platform_results, completed,
                   results, running, delay>>

\* line 402: extract_complete_kpi_data is called for an item with a url
sequential_start ==
    /\ UNCHANGED outsideMulti
    /\ mpc = "sequential"
    /\ position <= Len(urls)
    /\ urls[position].url # NoUrl
    /\ mpc' = "extracting"
    /\ running' = running \cup {urls[position].platform}
    /\ UNCHANGED <<urls, parallel, platform_results, completed, results,
                   position, delay>>

\* line 405: the platform is not the last key of urls
NotLastKey(us, p) == p # us[Len(us)].platform

\* lines 402-408: the call of line 402 ends.  An exception is not caught
\* and ends the whole call; otherwise the entry is stored and, unless the
\* platform is the last key of urls, a sleep of random.uniform(3, 8)
\* seconds starts.
sequential_step(r, s) ==
    /\ UNCHANGED outsideMulti
    /\ mpc = "extracting"
    /\ r \in TaskResults(urls[position].platform, urls[position].url)
    /\ running' = running \ {urls[position].platform}
    /\ IF r = Raised
       THEN /\ mpc' = "raised"
            /\ results' = results
            /\ position' = position
            /\ delay' = 0
       ELSE /\ results' = Put(results, urls[position].platform, r)
            /\ IF NotLastKey(urls, urls[position].platform)
               THEN /\ mpc' = "delay"
                    /\ delay' = s
                    /\ position' = position
               ELSE /\ mpc' = "sequential"
                    /\ delay' = 0
                    /\ position' = position + 1
    /\ UNCHANGED <<urls, parallel, platform_results, completed>>

\* line 408: the sleep is over and the loop goes on to the next item
delay_wake ==
    /\ UNCHANGED outsideMulti
    /\ mpc = "delay"
    /\ mpc' = "sequential"
    /\ delay' = 0
    /\ position' = position + 1
    /\ UNCHANGED <<urls, parallel, platform_results, completed, results,
                   running>>

\* line 415 after the sequential loop
sequential_return ==
    /\ UNCHANGED outsideMulti
    /\ mpc = "sequential"
    /\ position > Len(urls)
    /\ mpc' = "returned"
    /\ UNCHANGED <<urls, parallel, platform_results, completed, results,
                   position, running, delay>>

AllTaskResults ==
    {KpiData(p, u, ok) : p \in Platforms, u \in Urls, ok \in BOOLEAN}
        \cup {Raised}

MultiNext ==
    \/ multi_call
    \/ \E i \in 1..MaxPlatforms, r \in AllTaskResults : task_done(i, r)
    \/ gather_return
    \/ sequential_skip
    \/ sequential_start
    \/ \E r \in AllTaskResults, s \in DelayLow..DelayHigh :
          sequential_step(r, s)
    \/ delay_wake
    \/ sequential_return

\* ------------------------------------------------------------------------
\* TwitterExtractor / LinkedInExtractor: extract_followers,
\* extract_engagement and _estimate_engagement_from_followers
\* ------------------------------------------------------------------------
MaxCount == 3

Sites == {"twitter", "linkedin"}

\* A follower count read from a page: None, or a count (in thousands)
PageCounts == {Unknown} \cup {1000 * n : n \in 0..MaxCount}

\* What one visit finds: whether API credentials are configured, how the
\* API call ends, whether scraping raises, whether the login prompt or wall
\* is shown, the count in the API answer, the count on the login page, the
\* count on the profile page, and whether the visible posts give
\* engagement figures.
Pages ==
    [credentials : BOOLEAN,
     api : {"none", "data", "raises"},
     scraping_raises : BOOLEAN,
     login : BOOLEAN,
     api_followers : {Unknown, 1000 * MaxCount},
     login_followers : PageCounts,
     page_followers : PageCounts,
     posts : {"none", "data"}]

\* The two return values before the calls
NotCalledYet == [origin |-> "pending", value |-> Unknown,
                 estimated |-> FALSE, total_engagement |-> 0,
                 avg_likes |-> 0]

\* return None
ReturnsNone == [origin |-> "none", value |-> Unknown,
                estimated |-> FALSE, total_engagement |-> 0, avg_likes |-> 0]

\* A follower count v read from origin o
Count(o, v) ==
    IF v = Unknown THEN ReturnsNone
    ELSE [origin |-> o, value |-> v, estimated |-> FALSE,
          total_engagement |-> 0, avg_likes |-> 0]

\* The engagement dict computed from the API answer or from the visible
\* posts: it has no "estimated" key
Measured(o) == [origin |-> o, value |-> Unknown, estimated |-> FALSE,
                total_engagement |-> 9, avg_likes |-> 6]

\* Mutation of EstimatedFlag: the estimate carries no flag.
EstimatedFlag_missing == FALSE

\* twitter_extractor.py line 752, linkedin_extractor.py line 581
EstimatedFlag == TRUE

\* _estimate_engagement_from_followers: int(followers * 0.007) and 70 % of
\* it as likes for Twitter, int(followers * 0.015) and 80 % for LinkedIn
Estimate(s, f) ==
    LET total_engagement == IF s = "twitter" THEN (f * 7) \div 1000
                            ELSE (f * 15) \div 1000
        avg_likes == IF s = "twitter" THEN (total_engagement * 7) \div 10
                     ELSE (total_engagement * 8) \div 10
    IN [origin |-> "estimate", value |-> Unknown,
        estimated |-> EstimatedFlag,
        total_engagement |-> total_engagement, avg_likes |-> avg_likes]

\* _extract_followers_via_scraping: the count of the login page when the
\* login prompt is shown, else the count of the profile page; an exception
\* is re-raised and extract_followers returns None
FollowersViaScraping(pg) ==
    IF pg.scraping_raises THEN ReturnsNone
    ELSE IF pg.login THEN Count("login_page", pg.login_followers)
    ELSE Count("page", pg.page_followers)

\* extract_followers: the API when credentials are configured and it gives
\* a count, else scraping
ExtractFollowers(pg) ==
    IF pg.credentials /\ pg.api = "data" /\ pg.api_followers # Unknown
    THEN Count("api", pg.api_followers)
    ELSE FollowersViaScraping(pg)

\* `if followers:` before the estimate: a count that is not None and not 0
HasFollowers(f) == f # Unknown /\ f # 0

\* _extract_engagement_via_scraping: behind a login prompt the estimate
\* from the count of the login page, or None without a count; else the
\* figures of the visible posts, or None
EngagementViaScraping(s, pg) ==
    IF pg.scraping_raises THEN ReturnsNone
    ELSE IF pg.login
         THEN IF HasFollowers(pg.login_followers)
              THEN Estimate(s, pg.login_followers)
              ELSE ReturnsNone
    ELSE IF pg.posts = "data" THEN Measured("posts")
    ELSE ReturnsNone

\* extract_engagement: the API when credentials are configured and it
\* gives a dict, else scraping
ExtractEngagement(s, pg) ==
    IF pg.credentials /\ pg.api = "data"
    THEN Measured("api")
    ELSE EngagementViaScraping(s, pg)

EstInit ==
    /\ site \in Sites
    /\ page \in Pages
    /\ got_followers = NotCalledYet
    /\ got_engagement = NotCalledYet

\* The extractors while another component is checked.
EstOff ==
    /\ site = "twitter"
    /\ page = [credentials |-> FALSE, api |-> "none",
               scraping_raises |-> FALSE, login |-> FALSE,
               api_followers |-> Unknown, login_followers |-> Unknown, page_followers |-> Unknown,
               posts |-> "none"]
    /\ got_followers = NotCalledYet
    /\ got_engagement = NotCalledYet

\* extractor.extract_followers(url)
followers_call ==
    /\ UNCHANGED outsideEst
    /\ got_followers = NotCalledYet
    /\ got_followers' = ExtractFollowers(page)
    /\ UNCHANGED <<site, page, got_engagement>>

\* extractor.extract_engagement(url)
engagement_call ==
    /\ UNCHANGED outsideEst
    /\ got_engagement = NotCalledYet
    /\ got_engagement' = ExtractEngagement(site, page)
    /\ UNCHANGED <<site, page, got_followers>>

EstNext ==
    \/ followers_call
    \/ engagement_call

\* ------------------------------------------------------------------------
\* The follower-count parsers: TwitterExtractor
\* ._extract_followers_from_login_prompt_page / ._extract_followers_from_page,
\* InstagramExtractor._extract_followers_from_page and
\* TikTokExtractor._extract_followers_from_page
\* ------------------------------------------------------------------------
MaxWhole == 2
MaxTenth == 2

\* The digits of a count: a whole part and, after a dot, one decimal
\* (Unknown when there is no dot); commas group the whole part.
Numbers ==
    [whole : 0..MaxWhole \cup {45231}, tenth : {Unknown}]
        \cup [whole : 0..MaxWhole \cup {3}, tenth : 0..MaxTenth \cup {4}]

Suffixes == {"", "K", "k", "M", "m"}

\* A text with a count: the digits, the suffix written right after them, and
\* whether the rest of the text (the other words around the count and its
\* "Followers" label) contains a letter k or a letter m in either case.
\* A count with a decimal has a suffix.
Texts ==
    {t \in [number : Numbers, suffix : Suffixes,
             other_k : BOOLEAN, other_m : BOOLEAN] :
        t.number.tenth # Unknown => t.suffix # ""}

Strategies ==
    {"twitter_login_meta", "twitter_login_js", "twitter_login_html",
     "twitter_selector", "twitter_js_link", "twitter_js_any",
     "twitter_html_link",
     "instagram_meta", "instagram_selector", "instagram_js",
     "tiktok_selector", "tiktok_js_sibling", "tiktok_js_any", "tiktok_html"}

\* Any count of two thousand millions or more
Huge == 2000000000

\* float(s) * 1000 and float(s) * 1000000 of the digits, as an integer
Thousands(n) ==
    n.whole * 1000 + (IF n.tenth = Unknown THEN 0 ELSE n.tenth * 100)
Millions(n) ==
    IF n.whole >= 2000 THEN Huge
    ELSE n.whole * 1000000
            + (IF n.tenth = Unknown THEN 0 ELSE n.tenth * 100000)

\* Mutation of ContainsK: only the suffix of the count is looked at.
ContainsK_suffix(t) == t.suffix \in {"K", "k"}

\* `'k' in text.lower()`, `text.includes('K') || text.includes('k')`
ContainsK(t) == t.suffix \in {"K", "k"} \/ t.other_k

\* `'m' in text.lower()`, `text.includes('M') || text.includes('m')`
ContainsM(t) == t.suffix \in {"M", "m"} \/ t.other_m

\* The regular expression ([\d,\.]+)[KkMm]?\s+[Ff]ollowers found the count;
\* k and m are then looked for in the whole text; int() of digits with a dot
\* raises ValueError, which ends the strategy without a result.
WholeTextPython(t) ==
    IF ContainsK(t) THEN Thousands(t.number)
    ELSE IF ContainsM(t) THEN Millions(t.number)
    ELSE IF t.number.tenth # Unknown THEN Unknown
    ELSE t.number.whole

\* The same in the page's JavaScript: parseInt stops at the dot
WholeTextJs(t) ==
    IF ContainsK(t) THEN Thousands(t.number)
    ELSE IF ContainsM(t) THEN Millions(t.number)
    ELSE t.number.whole

\* The text of the element a selector found: float(text.replace('k', ''))
\* raises ValueError when anything but the digits is left, and without k
\* and m the digits are taken with a regular expression.
SelectorText(t) ==
    IF ContainsK(t)
    THEN IF t.other_k \/ t.other_m \/ t.suffix \notin {"K", "k"}
         THEN Unknown ELSE Thousands(t.number)
    ELSE IF ContainsM(t)
    THEN IF t.other_m \/ t.suffix \notin {"M", "m"}
         THEN Unknown ELSE Millions(t.number)
    ELSE t.number.whole

\* The text of the followers link: k and m are looked for in it, and
\* everything but digits and dots is removed before the conversion
LinkText(t) ==
    IF ContainsK(t) THEN Thousands(t.number)
    ELSE IF ContainsM(t) THEN Millions(t.number)
    ELSE t.number.whole

\* instagram_extractor.py lines 323-326: ([\d,.]+)\s+[Ff]ollowers does not
\* match a count with a suffix; commas and dots are removed
InstagramMeta(t) ==
    IF t.suffix # "" THEN Unknown
    ELSE IF t.number.tenth = Unknown THEN t.number.whole
    ELSE t.number.whole * 10 + t.number.tenth

\* instagram_extractor.py lines 369-379: ([\d,.]+)[\s]*followers does not
\* match a count with a suffix, so count never includes k or m
InstagramJs(t) ==
    IF t.suffix # "" THEN Unknown ELSE t.number.whole

\* What strategy st returns for text t, Unknown for no result
Parse(st, t) ==
    CASE st \in {"twitter_login_meta", "twitter_login_html", "tiktok_html"}
           -> WholeTextPython(t)
      [] st \in {"twitter_login_js", "twitter_js_any", "tiktok_js_any"}
           -> WholeTextJs(t)
      [] st \in {"twitter_selector", "instagram_selector", "tiktok_selector"}
           -> SelectorText(t)
      [] st \in {"twitter_js_link", "twitter_html_link", "tiktok_js_sibling"}
           -> LinkText(t)
      [] st = "instagram_meta" -> InstagramMeta(t)
      [] st = "instagram_js" -> InstagramJs(t)

NotParsed == -2

ParseInit ==
    /\ strategy \in Strategies
    /\ content \in Texts
    /\ parsed = NotParsed

\* The parsers while another component is checked.
ParseOff ==
    /\ strategy = "twitter_login_meta"
    /\ content = [number |-> [whole |-> 0, tenth |-> Unknown], suffix |-> "",
                  other_k |-> FALSE, other_m |-> FALSE]
    /\ parsed = NotParsed

\* One strategy is applied to the text
parse_followers ==
    /\ UNCHANGED outsideParse
    /\ parsed = NotParsed
    /\ parsed' = Parse(strategy, content)
    /\ UNCHANGED <<strategy, content>>

ParseNext == parse_followers

\* ------------------------------------------------------------------------
\* BaseAPIClient.make_api_request
\* ------------------------------------------------------------------------
MaxRetryAfter == 3
MaxRequests == 3

\* base_api_client.py line 131: the wait assumed without a Retry-After
DefaultRetryAfter == 60

\* The header of a 429 response: a number of seconds, or no header
NoHeader == 0
RetryAfters == {NoHeader} \cup 1..MaxRetryAfter

\* What the platform answers: 2xx with a body, 429, another status, or the
\* request raises
Statuses == {"ok", "limited", "failed", "raises"}

NoResponse == [status |-> "none", val |-> None, cached |-> FALSE,
               waited |-> 0]

\* The seconds the client is asked to wait by a 429 with header h
AskedWait(h) == IF h = NoHeader THEN DefaultRetryAfter ELSE h

ApiInit ==
    /\ api_cache_enabled \in BOOLEAN
    /\ api_rate_limited \in BOOLEAN
    /\ api_cache = None
    /\ retry_left = 0
    /\ sent = 0
    /\ response = NoResponse

\* The client while another component is checked.
ApiOff ==
    /\ api_cache_enabled = FALSE
    /\ api_rate_limited = FALSE
    /\ api_cache = None
    /\ retry_left = 0
    /\ sent = 0
    /\ response = NoResponse

\* lines 99-106: a GET whose result is in the cache returns it
request_cached ==
    /\ UNCHANGED outsideApi
    /\ api_cache_enabled
    /\ api_cache # None
    /\ response' = [status |-> "ok", val |-> api_cache, cached |-> TRUE,
                    waited |-> 0]
    /\ UNCHANGED <<api_cache_enabled, api_rate_limited, api_cache,
                   retry_left, sent>>

\* lines 108-151 for a call that is not answered from the cache: the rate
\* limiter's wait takes w seconds (none when rate limiting is off), then
\* the request is sent and answered with status st, body v or header h.
Send(w, st, v, h) ==
    /\ ~(api_cache_enabled /\ api_cache # None)
    /\ sent < MaxRequests
    /\ ~api_rate_limited => w = 0
    /\ sent' = sent + 1
    /\ retry_left' = IF st = "limited" THEN AskedWait(h)
                     ELSE IF retry_left > w THEN retry_left - w ELSE 0
    /\ api_cache' = IF st = "ok" /\ api_cache_enabled THEN v ELSE api_cache
    /\ response' = [status |-> st, val |-> v, cached |-> FALSE,
                    waited |-> w]
    /\ UNCHANGED <<api_cache_enabled, api_rate_limited>>

\* lines 136-143: a 2xx answer is cached and returned
request_ok(w, v) ==
    /\ UNCHANGED outsideApi
    /\ Send(w, "ok", v, NoHeader)

\* lines 130-133: a 429 answer: Retry-After is read and logged, None is
\* returned
request_limited(w, h) ==
    /\ UNCHANGED outsideApi
    /\ Send(w, "limited", None, h)

\* lines 144-151: another status, or an exception: None is returned
request_failed(w, st) ==
    /\ UNCHANGED outsideApi
    /\ st \in {"failed", "raises"}
    /\ Send(w, st, None, NoHeader)

\* A second passes between two calls
ApiTick ==
    /\ UNCHANGED outsideApi
    /\ retry_left > 0
    /\ retry_left' = retry_left - 1
    /\ UNCHANGED <<api_cache_enabled, api_rate_limited, api_cache, sent,
                   response>>

\* The cache entry expires
api_cache_expire ==
    /\ UNCHANGED outsideApi
    /\ api_cache # None
    /\ api_cache' = None
    /\ UNCHANGED <<api_cache_enabled, api_rate_limited, retry_left, sent,
                   response>>

ApiNext ==
    \/ request_cached
    \/ \E w \in 0..MaxRetryAfter, v \in Values : request_ok(w, v)
    \/ \E w \in 0..MaxRetryAfter, h \in RetryAfters : request_limited(w, h)
    \/ \E w \in 0..MaxRetryAfter, st \in Statuses : request_failed(w, st)
    \/ ApiTick
    \/ api_cache_expire

\* ------------------------------------------------------------------------
\* BaseAPIClient.extract_with_retry
\* ------------------------------------------------------------------------
ApiMaxRetries == 7

\* base_api_client.py line 192: min(2 ** retries + random.uniform(0, 1), 60)
\* in half seconds, the jitter being 0, 1 or 2 halves
WaitCap == 60
Jitters == 0..2

BackoffWait(k, j) == Min(2 * (2 ^ k) + j, 2 * WaitCap)

RetryInit ==
    /\ x_max \in 1..ApiMaxRetries
    /\ x_pc = "loop"
    /\ x_retries = 0
    /\ x_calls = 0
    /\ x_last = NotCalled
    /\ x_wait = 0
    /\ x_slept = 0
    /\ x_ret = NotCalled

\* The retry helper while another component is checked.
RetryOff ==
    /\ x_max = 1
    /\ x_pc = "loop"
    /\ x_retries = 0
    /\ x_calls = 0
    /\ x_last = NotCalled
    /\ x_wait = 0
    /\ x_slept = 0
    /\ x_ret = NotCalled

\* Mutation of LoopGoesOn: one more round.
LoopGoesOn_once_more(r, m) == r <= m

\* line 175: while retries < max_retries
LoopGoesOn(r, m) == r < m

\* lines 175-199: one round of the loop.  extraction_func yields out; a
\* value is returned at once; None or an exception increments retries and,
\* when another round follows, starts the sleep with jitter j.
x_attempt(out, j) ==
    /\ UNCHANGED outsideRetry
    /\ x_pc = "loop"
    /\ LoopGoesOn(x_retries, x_max)
    /\ x_calls' = x_calls + 1
    /\ x_last' = out
    /\ IF out \notin {None, Raises}
       THEN /\ x_pc' = "returned"
            /\ x_ret' = out
            /\ x_retries' = x_retries
            /\ x_wait' = 0
       ELSE /\ x_retries' = x_retries + 1
            /\ x_ret' = x_ret
            /\ IF x_retries + 1 < x_max
               THEN /\ x_pc' = "sleep"
                    /\ x_wait' = BackoffWait(x_retries + 1, j)
               ELSE /\ x_pc' = "loop"
                    /\ x_wait' = 0
    /\ UNCHANGED <<x_max, x_slept>>

\* line 199: the sleep is over
x_wake ==
    /\ UNCHANGED outsideRetry
    /\ x_pc = "sleep"
    /\ x_pc' = "loop"
    /\ x_wait' = 0
    /\ x_slept' = x_slept + 1
    /\ UNCHANGED <<x_max, x_retries, x_calls, x_last, x_ret>>

\* lines 201-202: the loop is over: return None
x_give_up ==
    /\ UNCHANGED outsideRetry
    /\ x_pc = "loop"
    /\ ~LoopGoesOn(x_retries, x_max)
    /\ x_pc' = "returned"
    /\ x_ret' = None
    /\ UNCHANGED <<x_max, x_retries, x_calls, x_last, x_wait, x_slept>>

RetryNext ==
    \/ \E out \in Outcomes, j \in Jitters : x_attempt(out, j)
    \/ x_wake
    \/ x_give_up

\* ------------------------------------------------------------------------
\* KPIValidator.validate_platform and run_validation_tests
\* ------------------------------------------------------------------------
MaxValidated == 2
MaxTests == 2
MaxFields == 2

ValidatedPlatforms == 1..MaxValidated
ExpectedFields == 1..MaxFields

\* What client.get_user_profile gives: an exception, nothing (None or an
\* empty dict), or a dict in which an expected field is missing, None or
\* has a value
Profiles ==
    {[kind |-> k, fields |-> [f \in ExpectedFields |-> "missing"]] :
        k \in {"raises", "nothing"}}
    \cup [kind : {"dict"},
          fields : [ExpectedFields -> {"missing", "null", "value"}]]

\* What client.get_engagement_metrics gives: an exception, nothing, or a
\* dict in which an expected field is missing or present, with an
\* engagement_rate that is absent, within 0..100, or outside
EngagementMetrics ==
    {[kind |-> k, fields |-> [f \in ExpectedFields |-> "missing"],
      rate |-> "absent"] : k \in {"raises", "nothing"}}
    \cup [kind : {"dict"},
          fields : [ExpectedFields -> {"missing", "present"}],
          rate : {"absent", "reasonable", "unreasonable"}]

\* Mutation of ProfileFieldValid: a field that is None is accepted.
ProfileFieldValid_present(pr, f) == pr.fields[f] # "missing"

\* line 159: field in profile_data and profile_data[field] is not None
ProfileFieldValid(pr, f) == pr.fields[f] = "value"

\* line 211: field in engagement_data
EngagementFieldValid(en, f) == en.fields[f] = "present"

\* _validate_profile_extraction: is_valid and the number of errors
ValidateProfile(pr) ==
    IF pr.kind # "dict" THEN [is_valid |-> FALSE, errors |-> 1]
    ELSE [is_valid |-> \A f \in ExpectedFields : ProfileFieldValid(pr, f),
          errors |-> Cardinality({f \in ExpectedFields :
                                     ~ProfileFieldValid(pr, f)})]

\* _validate_engagement_extraction: is_valid and the number of errors
ValidateEngagement(en) ==
    IF en.kind # "dict" THEN [is_valid |-> FALSE, errors |-> 1]
    ELSE [is_valid |-> /\ \A f \in ExpectedFields :
                              EngagementFieldValid(en, f)
                       /\ en.rate # "unreasonable",
          errors |-> Cardinality({f \in ExpectedFields :
                                     ~EngagementFieldValid(en, f)})
                     + (IF en.rate = "unreasonable" THEN 1 ELSE 0)]

\* lines 95-103: the KPIValidationResult of a test case
ValidationResult(pr, en) ==
    [is_valid |-> ValidateProfile(pr).is_valid
                    /\ ValidateEngagement(en).is_valid,
     errors |-> ValidateProfile(pr).errors + ValidateEngagement(en).errors]

NoCase == [called |-> FALSE,
           profile |-> [kind |-> "nothing",
                        fields |-> [f \in ExpectedFields |-> "missing"]],
           engagement |-> [kind |-> "nothing",
                           fields |-> [f \in ExpectedFields |-> "missing"],
                           rate |-> "absent"],
           is_valid |-> FALSE, errors |-> 0]

NoReport == [done |-> FALSE,
             platforms |-> [p \in ValidatedPlatforms |->
                              [success_rate |-> 0, tests |-> 0,
                               successful |-> 0]],
             overall_success_rate |-> 0, total_tests |-> 0,
             successful_tests |-> 0]

\* The number of TRUE in a sequence of booleans
RECURSIVE CountValid(_)
CountValid(s) ==
    IF s = <<>> THEN 0
    ELSE (IF Head(s) THEN 1 ELSE 0) + CountValid(Tail(s))

RECURSIVE SumOver(_, _)
SumOver(f, S) ==
    IF S = {} THEN 0
    ELSE LET x == CHOOSE y \in S : TRUE IN f[x] + SumOver(f, S \ {x})

\* lines 275-278 and 285: round(successful / total * 100, 2) in hundredths
\* of a percent, 0 without tests
SuccessRate(successful, total) ==
    IF total > 0 THEN RoundHundredths(successful * 100, total) ELSE 0

\* run_validation_tests, lines 253-289
Report(res) ==
    LET successful == [p \in ValidatedPlatforms |-> CountValid(res[p])]
        tests == [p \in ValidatedPlatforms |-> Len(res[p])]
        total_tests == SumOver(tests, ValidatedPlatforms)
        successful_tests == SumOver(successful, ValidatedPlatforms)
    IN [done |-> TRUE,
        platforms |-> [p \in ValidatedPlatforms |->
                         [success_rate |-> SuccessRate(successful[p],
                                                       tests[p]),
                          tests |-> tests[p],
                          successful |-> successful[p]]],
        overall_success_rate |-> SuccessRate(successful_tests, total_tests),
        total_tests |-> total_tests,
        successful_tests |-> successful_tests]

ValidInit ==
    /\ v_tests \in [ValidatedPlatforms -> 0..MaxTests]
    /\ v_platform = 1
    /\ v_case = NoCase
    /\ v_results = [p \in ValidatedPlatforms |-> <<>>]
    /\ v_report = NoReport

\* The validator while another component is checked.
ValidOff ==
    /\ v_tests = [p \in ValidatedPlatforms |-> 0]
    /\ v_platform = 1
    /\ v_case = NoCase
    /\ v_results = [p \in ValidatedPlatforms |-> <<>>]
    /\ v_report = NoReport

\* validate_platform, lines 87-105: one username of the current platform
validate_case(pr, en) ==
    /\ UNCHANGED outsideValid
    /\ v_platform \in ValidatedPlatforms
    /\ Len(v_results[v_platform]) < v_tests[v_platform]
    /\ v_case' = [called |-> TRUE, profile |-> pr, engagement |-> en,
                  is_valid |-> ValidationResult(pr, en).is_valid,
                  errors |-> ValidationResult(pr, en).errors]
    /\ v_results' = [v_results EXCEPT ![v_platform] =
                        Append(@, ValidationResult(pr, en).is_valid)]
    /\ UNCHANGED <<v_tests, v_platform, v_report>>

\* validate_platform returns (line 113) and validate_all_platforms goes on
\* to the next platform (lines 124-126)
platform_done ==
    /\ UNCHANGED outsideValid
    /\ v_platform \in ValidatedPlatforms
    /\ Len(v_results[v_platform]) = v_tests[v_platform]
    /\ v_platform' = v_platform + 1
    /\ UNCHANGED <<v_tests, v_case, v_results, v_report>>

\* run_validation_tests, lines 252-289
generate_report ==
    /\ UNCHANGED outsideValid
    /\ v_platform \notin ValidatedPlatforms
    /\ ~v_report.done
    /\ v_report' = Report(v_results)
    /\ UNCHANGED <<v_tests, v_platform, v_case, v_results>>

ValidNext ==
    \/ \E pr \in Profiles, en \in EngagementMetrics : validate_case(pr, en)
    \/ platform_done
    \/ generate_report

\* ------------------------------------------------------------------------
\* The synchronous HybridExtractor.extract_followers and extract_engagement
\* (kpis-social-extractor/app/extractors/base_extractor.py); the two
\* methods are the same statements on different extractor methods.
\* ------------------------------------------------------------------------
MaxLegacyRetries == 4

LegacyOps == {"extract_followers", "extract_engagement"}

LegacyInit ==
    /\ l_op \in LegacyOps
    /\ l_registered \in BOOLEAN
    /\ l_max \in 0..MaxLegacyRetries
    /\ l_pc = "level1"
    /\ l_attempt = 0
    /\ l_calls = 0
    /\ l_fails = 0
    /\ l_last = NotCalled
    /\ l_delays = <<>>
    /\ l_ret = NotCalled

\* The synchronous extractor while another component is checked.
LegacyOff ==
    /\ l_op = "extract_followers"
    /\ l_registered = TRUE
    /\ l_max = 0
    /\ l_pc = "level1"
    /\ l_attempt = 0
    /\ l_calls = 0
    /\ l_fails = 0
    /\ l_last = NotCalled
    /\ l_delays = <<>>
    /\ l_ret = NotCalled

\* lines 133 / 146: followers is not None
Obtained(out) == out \notin {None, Raises}

\* Mutation of SleepsAfter: a delay follows every attempt.
SleepsAfter_every(attempt, m) == attempt <= m

\* line 155: if attempt < self.max_retries
SleepsAfter(attempt, m) == attempt < m

\* line 156: delay = 2 * attempt
RetryDelay(attempt) == 2 * attempt

\* lines 124-126: no extractor for the platform: return None
legacy_unregistered ==
    /\ UNCHANGED outsideLegacy
    /\ l_pc = "level1"
    /\ ~l_registered
    /\ l_pc' = "returned"
    /\ l_ret' = None
    /\ UNCHANGED <<l_op, l_registered, l_max, l_attempt, l_calls, l_fails,
                   l_last, l_delays>>

\* lines 130-137: the Level 1 call; a value is returned, None and an
\* exception lead to the loop.
legacy_level1(out) ==
    /\ UNCHANGED outsideLegacy
    /\ l_pc = "level1"
    /\ l_registered
    /\ l_calls' = l_calls + 1
    /\ l_last' = out
    /\ IF Obtained(out)
       THEN /\ l_pc' = "returned"
            /\ l_ret' = out
            /\ UNCHANGED <<l_fails, l_attempt>>
       ELSE /\ l_pc' = "loop"
            /\ l_attempt' = 1
            /\ l_fails' = l_fails + 1
            /\ UNCHANGED l_ret
    /\ UNCHANGED <<l_op, l_registered, l_max, l_delays>>

\* lines 143-158: one round of `for attempt in range(1, max_retries + 1)`:
\* the call, the return of a value, else the sleep when line 155 says so.
legacy_attempt(out) ==
    /\ UNCHANGED outsideLegacy
    /\ l_pc = "loop"
    /\ l_attempt <= l_max
    /\ l_calls' = l_calls + 1
    /\ l_last' = out
    /\ IF Obtained(out)
       THEN /\ l_pc' = "returned"
            /\ l_ret' = out
            /\ UNCHANGED <<l_fails, l_attempt, l_delays>>
       ELSE /\ l_fails' = l_fails + 1
            /\ UNCHANGED l_ret
            /\ IF SleepsAfter(l_attempt, l_max)
               THEN /\ l_pc' = "sleep"
                    /\ l_delays' = Append(l_delays, RetryDelay(l_attempt))
                    /\ UNCHANGED l_attempt
               ELSE /\ l_pc' = "loop"
                    /\ l_attempt' = l_attempt + 1
                    /\ UNCHANGED l_delays
    /\ UNCHANGED <<l_op, l_registered, l_max>>

\* line 158 -> 143: time.sleep(delay) returns, the next round starts
legacy_wake ==
    /\ UNCHANGED outsideLegacy
    /\ l_pc = "sleep"
    /\ l_pc' = "loop"
    /\ l_attempt' = l_attempt + 1
    /\ UNCHANGED <<l_op, l_registered, l_max, l_calls, l_fails, l_last,
                   l_delays, l_ret>>

\* lines 160-161: the loop is over: return None
legacy_give_up ==
    /\ UNCHANGED outsideLegacy
    /\ l_pc = "loop"
    /\ l_attempt > l_max
    /\ l_pc' = "returned"
    /\ l_ret' = None
    /\ UNCHANGED <<l_op, l_registered, l_max, l_attempt, l_calls, l_fails,
                   l_last, l_delays>>

LegacyNext ==
    \/ legacy_unregistered
    \/ \E out \in Outcomes : legacy_level1(out)
    \/ \E out \in Outcomes : legacy_attempt(out)
    \/ legacy_wake
    \/ legacy_give_up

\* ------------------------------------------------------------------------
\* HybridExtractor.extract_followers / extract_engagement and
\* BaseExtractor.extract_with_retry
\* ------------------------------------------------------------------------
MaxRetries == 6          \* the largest Config.MAX_RETRIES considered
BackoffCap == 60         \* line 140: min(2 ** retries, 60)

Operations == {"followers", "engagement"}

\* lines 199 and 260: f"{platform}:followers:{url}" and
\* f"{platform}:engagement:{url}" for the platform and url of the requests
cache_key(o) == IF o = "followers" THEN "k1" ELSE "k2"

\* HybridExtractor.__init__ creates its own CacheManager (line 167).
OrchCache == "A"

\* await <call> (lines 213, 274, 126) of a call that yielded out: a
\* coroutine is awaited and gives its outcome; the return value of a plain
\* function is not awaitable, and await raises TypeError.
Await(out) ==
    IF out = Raises THEN Raises
    ELSE IF kind = "sync" THEN Raises
    ELSE out

\* Mutation of ApiExcept: the handler of the direct call is missing.
ApiExcept_missing == FALSE

\* lines 222-223: except Exception around the direct call
ApiExcept == TRUE

\* lines 135-150: except Exception around an attempt of extract_with_retry
RetryExcept == TRUE

\* Mutation of Backoff: the cap is forgotten.
Backoff_uncapped(n) == 2 ^ n

\* line 140: wait_time = min(2 ** retries, 60)
Backoff(n) == Min(2 ^ n, BackoffCap)

NoReq == [t |-> NoTask, op |-> "followers", val |-> None, hit |-> FALSE,
          raised |-> FALSE, calls |-> 0, grants |-> 0, first |-> NotCalled]

\* No extract_complete_kpi_data completed in the last step.
NoKpi == [t |-> NoTask, followers |-> None, engagement |-> None,
          success |-> FALSE, error |-> FALSE]

\* Mutation of Success: every result is reported as a success.
Success_always(fol, eng) == TRUE

\* line 345: followers is not None or engagement is not None
Success(fol, eng) == fol # None \/ eng # None

\* HybridExtractor.__init__ (lines 164-171), register_extractor (181) and
\* BaseExtractor.__init__ (lines 38-48)
HybridExtractor_init(mr, rl, kd, reg, cl) ==
    /\ max_retries = mr
    /\ rate_limit_enabled = rl
    /\ kind = kd
    /\ registered = reg
    /\ clients = cl
    /\ opc = [t \in Tasks |-> "idle"]
    /\ oper = [t \in Tasks |-> "followers"]
    /\ retries = [t \in Tasks |-> 0]
    /\ osleep = [t \in Tasks |-> 0]
    /\ calls = [t \in Tasks |-> 0]
    /\ grants = [t \in Tasks |-> 0]
    /\ first = [t \in Tasks |-> NotCalled]
    /\ oret = NoReq
    /\ kpc = [t \in Tasks |-> "none"]
    /\ kfol = [t \in Tasks |-> None]
    /\ kres = NoKpi

\* The orchestrator as constructed, while another component is checked.
OrchOff == HybridExtractor_init(0, TRUE, "async", TRUE, {})

\* A step in which the cache is not called.
NoCacheCall == ret' = NoRet /\ UNCHANGED <<mem, store, lastSet, gone>>

\* A step in which no request returns.
NoReturn == oret' = NoReq /\ kres' = NoKpi /\ UNCHANGED <<kpc, kfol>>

\* extract_complete_kpi_data, lines 332-356, continues when the request it
\* awaits returns v (or raises, exc): after extract_followers it keeps the
\* count; after extract_engagement it sets success and returns the result;
\* an exception is caught at line 352 and leaves success False.
KpiContinue(t, ph, v, exc) ==
    IF ph = "none"
    THEN kres' = NoKpi /\ UNCHANGED <<kpc, kfol>>
    ELSE IF exc
    THEN /\ kres' = [t |-> t, followers |-> kfol[t], engagement |-> None,
                     success |-> FALSE, error |-> TRUE]
         /\ kpc' = [kpc EXCEPT ![t] = "none"]
         /\ kfol' = [kfol EXCEPT ![t] = None]
    ELSE IF ph = "followers"
    THEN /\ kres' = NoKpi
         /\ kpc' = [kpc EXCEPT ![t] = "between"]
         /\ kfol' = [kfol EXCEPT ![t] = v]
    ELSE /\ kres' = [t |-> t, followers |-> kfol[t], engagement |-> v,
                     success |-> Success(kfol[t], v), error |-> FALSE]
         /\ kpc' = [kpc EXCEPT ![t] = "none"]
         /\ kfol' = [kfol EXCEPT ![t] = None]

\* return <v> of extract_followers / extract_engagement (lines 203, 207,
\* 221, 240, 243), or an exception leaving it; ph tells whether
\* extract_complete_kpi_data made the call, and for which of its two.
Return(t, o, ph, v, isHit, exc, c, g, f) ==
    /\ KpiContinue(t, ph, v, exc)
    /\ opc' = [opc EXCEPT ![t] = "idle"]
    /\ oret' = [t |-> t, op |-> o, val |-> v, hit |-> isHit, raised |-> exc,
                calls |-> c, grants |-> g, first |-> f]
    /\ oper' = [oper EXCEPT ![t] = "followers"]
    /\ first' = [first EXCEPT ![t] = NotCalled]
    /\ retries' = [retries EXCEPT ![t] = 0]
    /\ calls' = [calls EXCEPT ![t] = 0]
    /\ grants' = [grants EXCEPT ![t] = 0]

\* lines 214-221, 233-240: a non-null result is cached, if caching is
\* enabled, and returned; lines 242-243: None is returned.
CacheAndReturn(t, v, c, g, f) ==
    /\ IF v # None /\ enabled
       THEN set(OrchCache, cache_key(oper[t]), v, "none")
       ELSE NoCacheCall
    /\ Return(t, oper[t], kpc[t], v, FALSE, FALSE, c, g, f)

\* extract_with_retry at line 113 with retries = r: leave the loop with
\* None, or apply rate limiting (lines 116-120) and call the extraction
\* function (line 126).  acquire() has no suspension point of its own.
RetryLoop(t, r, f) ==
    LET tok == Refill(tokens, elapsed)
    IN IF r >= max_retries
       THEN /\ CacheAndReturn(t, None, calls[t], grants[t], f)
            /\ UNCHANGED <<tokens, elapsed, osleep>>
       ELSE /\ retries' = [retries EXCEPT ![t] = r]
            /\ first' = [first EXCEPT ![t] = f]
            /\ UNCHANGED oper
            /\ NoCacheCall
            /\ NoReturn
            /\ IF ~rate_limit_enabled
               THEN /\ opc' = [opc EXCEPT ![t] = "attempt"]
                    /\ calls' = [calls EXCEPT ![t] = @ + 1]
                    /\ UNCHANGED <<tokens, elapsed, osleep, grants>>
               ELSE /\ elapsed' = 0
                    /\ IF HasToken(tok)
                       THEN /\ tokens' = tok - per
                            /\ grants' = [grants EXCEPT ![t] = @ + 1]
                            /\ opc' = [opc EXCEPT ![t] = "attempt"]
                            /\ calls' = [calls EXCEPT ![t] = @ + 1]
                            /\ UNCHANGED osleep
                       ELSE /\ tokens' = tok
                            /\ opc' = [opc EXCEPT ![t] = "ratesleep"]
                            /\ osleep' = [osleep EXCEPT ![t] =
                                             SleepTicks(WaitTime(tok))]
                            /\ UNCHANGED <<calls, grants>>

orchConfig == <<max_retries, rate_limit_enabled, kind, registered, clients>>
orchFrame == <<rate, per, max_tokens, lock, pc, mode, can_proceed, timer,
               taken, looped, capped, last, immediate,
               enabled, ttl, backend, insts, keys, poolVars, orchConfig,
               rateVars, multiVars,
               estVars,
               parseVars,
               apiVars,
               retryVars,
               validVars,
               windowVars,
               legacyVars>>

\* Mutation of CacheHit: a cached result is never used.
CacheHit_never(v) == FALSE

\* lines 201 and 262: if cached_result is not None
CacheHit(v) == v # None

\* extract_followers / extract_engagement, lines 195-213 (256-274): the
\* cache check; on a miss the registry check and the start of the direct
\* extractor call.
StartRequest(t, o, ph) ==
    /\ UNCHANGED orchFrame
    /\ t \in clients
    /\ opc[t] = "idle"
    /\ IF enabled
       THEN get(OrchCache, cache_key(o), "none")
       ELSE ret' = NoRet /\ UNCHANGED <<mem, store>>
    /\ LET cached_result == IF enabled THEN ret'.val ELSE None
       IN IF CacheHit(cached_result)
          THEN Return(t, o, ph, cached_result, TRUE, FALSE, 0, 0, NotCalled)
          ELSE IF ~registered
          THEN Return(t, o, ph, None, FALSE, FALSE, 0, 0, NotCalled)
          ELSE /\ opc' = [opc EXCEPT ![t] = "api"]
               /\ oper' = [oper EXCEPT ![t] = o]
               /\ calls' = [calls EXCEPT ![t] = 1]
               /\ oret' = NoReq
               /\ kres' = NoKpi
               /\ kpc' = [kpc EXCEPT ![t] = ph]
               /\ UNCHANGED <<first, retries, grants, kfol>>
    /\ UNCHANGED <<tokens, elapsed, osleep, lastSet, gone>>

\* A caller requests extract_followers or extract_engagement by itself.
request_call(t, o) ==
    /\ kpc[t] = "none"
    /\ StartRequest(t, o, "none")

\* extract_complete_kpi_data, lines 317-332: await self.extract_followers
kpi_call(t) ==
    /\ kpc[t] = "none"
    /\ StartRequest(t, "followers", "followers")

\* extract_complete_kpi_data, lines 333-336: the follower count is in the
\* result; await self.extract_engagement
kpi_engagement(t) ==
    /\ kpc[t] = "between"
    /\ StartRequest(t, "engagement", "engagement")

\* lines 213-225 (274-286): the direct call is over.  Data is cached and
\* returned; None or an exception leads into extract_with_retry (line 229).
api_return(t, out) ==
    /\ UNCHANGED orchFrame
    /\ opc[t] = "api"
    /\ IF Await(out) = Raises /\ ~ApiExcept
       THEN /\ Return(t, oper[t], kpc[t], None, FALSE, TRUE, calls[t],
                      grants[t], out)
            /\ NoCacheCall
            /\ UNCHANGED <<tokens, elapsed, osleep>>
       ELSE IF Await(out) \in Values
       THEN /\ CacheAndReturn(t, Await(out), calls[t], grants[t], out)
            /\ UNCHANGED <<tokens, elapsed, osleep>>
       ELSE RetryLoop(t, 0, out)

\* line 120 -> 126: the sleep for the rate limit is over and the extraction
\* function is called.
rate_wake(t) ==
    /\ UNCHANGED orchFrame
    /\ opc[t] = "ratesleep"
    /\ osleep[t] = 0
    /\ opc' = [opc EXCEPT ![t] = "attempt"]
    /\ calls' = [calls EXCEPT ![t] = @ + 1]
    /\ NoReturn
    /\ NoCacheCall
    /\ UNCHANGED <<oper, first, retries, grants, osleep, tokens, elapsed>>

\* lines 126-150 and 233-243: an attempt is over.  Its result, None
\* included, is returned by extract_with_retry; an exception is counted
\* and followed by asyncio.sleep(wait_time).
attempt_return(t, out) ==
    /\ UNCHANGED orchFrame
    /\ opc[t] = "attempt"
    /\ IF Await(out) # Raises
       THEN /\ CacheAndReturn(t, Await(out), calls[t], grants[t], first[t])
            /\ UNCHANGED <<tokens, elapsed, osleep>>
       ELSE IF ~RetryExcept
       THEN /\ Return(t, oper[t], kpc[t], None, FALSE, TRUE, calls[t],
                      grants[t], first[t])
            /\ NoCacheCall
            /\ UNCHANGED <<tokens, elapsed, osleep>>
       ELSE /\ retries' = [retries EXCEPT ![t] = @ + 1]
            /\ osleep' = [osleep EXCEPT ![t] = Backoff(retries[t] + 1)]
            /\ opc' = [opc EXCEPT ![t] = "backoff"]
            /\ NoReturn
            /\ NoCacheCall
            /\ UNCHANGED <<tokens, elapsed, calls, grants, oper, first>>

\* line 150 -> 113: the backoff sleep is over.
backoff_wake(t) ==
    /\ UNCHANGED orchFrame
    /\ opc[t] = "backoff"
    /\ osleep[t] = 0
    /\ RetryLoop(t, retries[t], first[t])

\* One second passes on time.monotonic() and time.time().
OrchTick ==
    /\ UNCHANGED orchFrame
    /\ elapsed' = Min(elapsed + 1, ElapsedCap)
    /\ osleep' = [t \in Tasks |-> IF osleep[t] > 0 THEN osleep[t] - 1 ELSE 0]
    /\ mem' = [i \in Insts |-> [k \in Keys |-> Older(mem[i][k])]]
    /\ store' = [k \in Keys |->
                   IF backend = "redis" /\ Older(store[k]).age >= ttl
                   THEN Absent ELSE Older(store[k])]
    /\ lastSet' = [k \in Keys |-> Older(lastSet[k])]
    /\ ret' = NoRet
    /\ NoReturn
    /\ UNCHANGED <<tokens, gone, opc, oper, retries, calls, grants, first>>

OrchNext ==
    \/ \E t \in Tasks, o \in Operations : request_call(t, o)
    \/ \E t \in Tasks : kpi_call(t)
    \/ \E t \in Tasks : kpi_engagement(t)
    \/ \E t \in Tasks, out \in Outcomes : api_return(t, out)
    \/ \E t \in Tasks : rate_wake(t)
    \/ \E t \in Tasks, out \in Outcomes : attempt_return(t, out)
    \/ \E t \in Tasks : backoff_wake(t)
    \/ OrchTick

\* The configurations checked: one client under every setting; one client
\* with enough retries for the backoff to reach its cap; two concurrent
\* clients sharing the cache.
OrchDeployments ==
    {[cl |-> {1}, mr |-> m, rl |-> r, en |-> e, tt |-> t, kd |-> k,
      reg |-> g] :
        m \in {0, 2}, r \in BOOLEAN, e \in BOOLEAN, t \in 1..MaxTtl,
        k \in {"async", "sync"}, g \in BOOLEAN}
    \cup {[cl |-> {1}, mr |-> MaxRetries, rl |-> FALSE, en |-> FALSE, tt |-> 1,
           kd |-> "sync", reg |-> TRUE],
          [cl |-> Tasks, mr |-> 0, rl |-> TRUE, en |-> TRUE, tt |-> 1,
           kd |-> "async", reg |-> TRUE]}

\* BaseExtractor.__init__, lines 44-48: rate = burst = REQUESTS_PER_MINUTE
OrchInit ==
    /\ \E d \in OrchDeployments :
          /\ HybridExtractor_init(d.mr, d.rl, d.kd, d.reg, d.cl)
          /\ CacheManager_init(d.en, d.tt, "memory", <<{OrchCache}, Keys>>)
    /\ \E r \in 1..MaxRate : RateLimiter_init(r, MaxPer, r)
    /\ pc = [t \in Tasks |-> "idle"]
    /\ mode = [t \in Tasks |-> "none"]
    /\ can_proceed = [t \in Tasks |-> FALSE]
    /\ timer = [t \in Tasks |-> 0]
    /\ taken = [t \in Tasks |-> 0]
    /\ looped = [t \in Tasks |-> FALSE]
    /\ capped = FALSE
    /\ last = NoResult
    /\ immediate = 0
    /\ PoolOff
    /\ RateOff
    /\ MultiOff
    /\ EstOff
    /\ ParseOff
    /\ ApiOff
    /\ RetryOff
    /\ ValidOff
    /\ WindowOff
    /\ LegacyOff

SpecOrch == OrchInit /\ [][OrchNext]_vars

\* ------------------------------------------------------------------------
\* Specifications of the RateLimiter
\* ------------------------------------------------------------------------
LimiterAlone ==
    LimiterInit /\ CacheOff /\ PoolOff /\ OrchOff /\ RateOff /\ MultiOff
        /\ EstOff /\ ParseOff /\ ApiOff /\ RetryOff /\ ValidOff /\ WindowOff
        /\ LegacyOff

SpecLimiter == LimiterAlone /\ [][LimiterNext]_vars

\* asyncio runs every ready task, asyncio.Lock wakes its waiters in FIFO
\* order, and time passes; callers are free to call or not.
LimiterFairness ==
    /\ WF_vars(Tick)
    /\ \A t \in Tasks : SF_vars(acquire_enter(t))
    /\ \A t \in Tasks : WF_vars(acquire_take(t))
    /\ \A t \in Tasks : WF_vars(wait_wake(t))

SpecLimiterFair == LimiterAlone /\ [][LimiterNext]_vars /\ LimiterFairness

\* ------------------------------------------------------------------------
\* Claims about the RateLimiter
\* ------------------------------------------------------------------------
burst == max_tokens \div per

\* An acquire() completed in the last step.
Completed == last.t # NoTask

\* C1: after burst successful acquire() calls with no time elapsed since
\* construction, the next acquire() returns (False, w) with w > 0 and
\* leaves the token count as it was.
C1_BurstExhausted ==
    [][ (immediate = burst /\ Completed')
        => (~last'.ok /\ last'.wait > 0 /\ tokens' = tokens) ]_vars

C1_Witness ==
    /\ immediate = burst
    /\ Completed /\ ~last.ok /\ last.wait > 0
    /\ tokens = 0

\* C2: in every reachable state 0 <= tokens <= max_tokens.
C2_TokensInRange == 0 <= tokens /\ tokens <= max_tokens

\* A refill that was capped at max_tokens, after a token had been consumed
\* and time had passed.
C2_Witness ==
    /\ capped /\ tokens = max_tokens /\ immediate = -1
    /\ \E t \in Tasks : pc[t] = "take" /\ can_proceed[t]

\* C3: the refill-and-decrement runs under the lock (a task between the
\* test and the decrement owns it), a sleeping waiter does not own the
\* lock, and every grant consumes one token that was there.
C3_InLock ==
    \A t \in Tasks : /\ pc[t] = "take" => lock = t
                     /\ pc[t] = "sleep" => lock # t

C3_GrantConsumes ==
    (Completed' /\ last'.ok) => (tokens >= per /\ tokens' = tokens - per)

C3_AtomicAcquire == []C3_InLock /\ [][C3_GrantConsumes]_vars

\* A waiter sleeps while another caller is inside acquire().
C3_Witness ==
    \E t, u \in Tasks : /\ pc[t] = "sleep" /\ timer[t] > 0
                        /\ pc[u] = "take" /\ lock = u

\* C4, safety half: wait() returns only on a successful acquire() of the
\* same caller, which consumed the one token of that call.
C4_ReturnsWithToken ==
    \A t \in Tasks :
        (mode[t] = "wait" /\ mode'[t] = "none")
        => /\ last'.t = t /\ last'.ok
           /\ taken[t] = 0 /\ tokens' = tokens - per

\* C4 as stated: ... and every wait() eventually returns.
C4_WaitReturns ==
    /\ [][C4_ReturnsWithToken]_vars
    /\ \A t \in Tasks : (mode[t] = "wait") ~> (mode[t] = "none")

\* Another task was granted a token in the last step.
GrantedToOther(t) == Completed /\ last.ok /\ last.t # t

\* C4 as amended: ... and a waiting caller eventually returns unless
\* another caller is granted a token first.
C4_WaitReturnsOrOtherGranted ==
    /\ [][C4_ReturnsWithToken]_vars
    /\ \A t \in Tasks :
          (mode[t] = "wait") ~> (mode[t] = "none" \/ GrantedToOther(t))

\* A wait() that had to sleep has returned with a token.
C4_Witness ==
    /\ Completed /\ last.ok /\ last.looped
    /\ mode[last.t] = "none" /\ pc[last.t] = "idle"

\* ------------------------------------------------------------------------
\* Specifications of the CacheManager
\* ------------------------------------------------------------------------
LimiterOff ==
    /\ RateLimiter_init(1, 1, 1)
    /\ pc = [t \in Tasks |-> "idle"]
    /\ mode = [t \in Tasks |-> "none"]
    /\ can_proceed = [t \in Tasks |-> FALSE]
    /\ timer = [t \in Tasks |-> 0]
    /\ taken = [t \in Tasks |-> 0]
    /\ looped = [t \in Tasks |-> FALSE]
    /\ capped = FALSE
    /\ last = NoResult
    /\ immediate = 0

CacheAlone ==
    CacheInit /\ LimiterOff /\ PoolOff /\ OrchOff /\ RateOff /\ MultiOff
        /\ EstOff /\ ParseOff /\ ApiOff /\ RetryOff /\ ValidOff /\ WindowOff
        /\ LegacyOff

SpecCache == CacheAlone /\ [][CacheNext]_vars

SpecCacheFaulty == CacheAlone /\ [][CacheFaultyNext]_vars

\* ------------------------------------------------------------------------
\* Specification of the BrowserPool
\* ------------------------------------------------------------------------
PoolAlone ==
    PoolInit /\ LimiterOff /\ CacheOff /\ OrchOff /\ RateOff /\ MultiOff
        /\ EstOff /\ ParseOff /\ ApiOff /\ RetryOff /\ ValidOff /\ WindowOff
        /\ LegacyOff

SpecPool == PoolAlone /\ [][PoolNext]_vars

\* ------------------------------------------------------------------------
\* Specification of the result assembly of extract_complete_kpi_data
\* ------------------------------------------------------------------------
RateAlone ==
    RateInit /\ LimiterOff /\ CacheOff /\ PoolOff /\ OrchOff /\ MultiOff
        /\ EstOff /\ ParseOff /\ ApiOff /\ RetryOff /\ ValidOff /\ WindowOff
        /\ LegacyOff

SpecRate == RateAlone /\ [][RateNext]_vars

\* ------------------------------------------------------------------------
\* Specification of extract_multiple_platforms
\* ------------------------------------------------------------------------
MultiAlone ==
    MultiInit /\ LimiterOff /\ CacheOff /\ PoolOff /\ OrchOff /\ RateOff
        /\ EstOff /\ ParseOff /\ ApiOff /\ RetryOff /\ ValidOff /\ WindowOff
        /\ LegacyOff

SpecMulti == MultiAlone /\ [][MultiNext]_vars

\* ------------------------------------------------------------------------
\* Specification of the Twitter and LinkedIn extractors
\* ------------------------------------------------------------------------
EstAlone ==
    EstInit /\ LimiterOff /\ CacheOff /\ PoolOff /\ OrchOff /\ RateOff
        /\ MultiOff /\ ParseOff /\ ApiOff /\ RetryOff /\ ValidOff /\ WindowOff
        /\ LegacyOff

SpecEst == EstAlone /\ [][EstNext]_vars

\* ------------------------------------------------------------------------
\* Specification of the follower-count parsers
\* ------------------------------------------------------------------------
ParseAlone ==
    ParseInit /\ LimiterOff /\ CacheOff /\ PoolOff /\ OrchOff /\ RateOff
        /\ MultiOff /\ EstOff /\ ApiOff /\ RetryOff /\ ValidOff /\ WindowOff
        /\ LegacyOff

SpecParse == ParseAlone /\ [][ParseNext]_vars

\* ------------------------------------------------------------------------
\* Specification of BaseAPIClient.make_api_request
\* ------------------------------------------------------------------------
ApiAlone ==
    ApiInit /\ LimiterOff /\ CacheOff /\ PoolOff /\ OrchOff /\ RateOff
        /\ MultiOff /\ EstOff /\ ParseOff /\ RetryOff /\ ValidOff /\ WindowOff
        /\ LegacyOff

SpecApi == ApiAlone /\ [][ApiNext]_vars

\* ------------------------------------------------------------------------
\* Specification of BaseAPIClient.extract_with_retry
\* ------------------------------------------------------------------------
RetryAlone ==
    RetryInit /\ LimiterOff /\ CacheOff /\ PoolOff /\ OrchOff /\ RateOff
        /\ MultiOff /\ EstOff /\ ParseOff /\ ApiOff /\ ValidOff /\ WindowOff
        /\ LegacyOff

SpecRetry == RetryAlone /\ [][RetryNext]_vars

\* ------------------------------------------------------------------------
\* Specification of the KPIValidator
\* ------------------------------------------------------------------------
ValidAlone ==
    ValidInit /\ LimiterOff /\ CacheOff /\ PoolOff /\ OrchOff /\ RateOff
        /\ MultiOff /\ EstOff /\ ParseOff /\ ApiOff /\ RetryOff /\ WindowOff
        /\ LegacyOff

SpecValid == ValidAlone /\ [][ValidNext]_vars

\* ------------------------------------------------------------------------
\* Specification of the RateLimiter observed over an interval
\* ------------------------------------------------------------------------
WindowNext ==
    \/ LimiterNext
    \/ open_window

WindowAlone ==
    LimiterInit /\ WindowInit /\ CacheOff /\ PoolOff /\ OrchOff /\ RateOff
        /\ MultiOff /\ EstOff /\ ParseOff /\ ApiOff /\ RetryOff /\ ValidOff
        /\ LegacyOff

SpecWindow == WindowAlone /\ [][WindowNext]_vars

\* ------------------------------------------------------------------------
\* Specification of the BrowserPool with pages closed twice
\* ------------------------------------------------------------------------
SpecPoolTwice == PoolAlone /\ [][PoolTwiceNext]_vars

\* ------------------------------------------------------------------------
\* Specification of the synchronous HybridExtractor
\* ------------------------------------------------------------------------
LegacyAlone ==
    LegacyInit /\ LimiterOff /\ CacheOff /\ PoolOff /\ OrchOff /\ RateOff
        /\ MultiOff /\ EstOff /\ ParseOff /\ ApiOff /\ RetryOff /\ ValidOff
        /\ WindowOff

SpecLegacy == LegacyAlone /\ [][LegacyNext]_vars

\* ------------------------------------------------------------------------
\* Claims about the CacheManager
\* ------------------------------------------------------------------------
\* The instances see the same entries: they share a backend, or there is
\* only one.
SharedOrSingle == backend # "memory" \/ Cardinality(insts) = 1

\* C5: a get(k) within ttl seconds of the most recent set(k, v) returns v,
\* and a get(k) more than ttl seconds after it returns None, for every
\* backend and also when several instances share the backend.
C5_GetWithinTtl ==
    (ret'.op = "get" /\ enabled /\ SharedOrSingle /\ lastSet[ret'.key].has)
    => /\ lastSet[ret'.key].age < ttl => ret'.val = lastSet[ret'.key].value
       /\ lastSet[ret'.key].age > ttl => ret'.val = None

C5_TtlOnRead == [][C5_GetWithinTtl]_vars

\* C6: set(k, v) stores v in the in-process map and in the configured
\* backend; get(k) returns an unexpired in-process entry without touching
\* the backend, which is consulted only on an in-process miss.
C6_SetStoresBoth ==
    (ret'.op = "set" /\ enabled)
    => /\ mem'[ret'.inst][ret'.key] = Entry(ret'.val, 0)
       /\ backend # "memory"
          => /\ store'[ret'.key].has
             /\ json_loads(store'[ret'.key].value) = ret'.val

C6_GetMemoryFirst ==
    (ret'.op = "get" /\ enabled)
    => IF mem[ret'.inst][ret'.key].has /\ mem[ret'.inst][ret'.key].age <= ttl
       THEN /\ ret'.val = mem[ret'.inst][ret'.key].value
            /\ ret'.tier = "memory"
            /\ store' = store
       ELSE ret'.tier # "memory"

C6_WriteThroughMemoryFirst == [][C6_SetStoresBoth /\ C6_GetMemoryFirst]_vars

\* A get() answered from the in-process map while the backend holds the key.
C6_Witness ==
    /\ enabled /\ backend = "file"
    /\ ret.op = "get" /\ ret.tier = "memory" /\ ret.val # None
    /\ store[ret.key].has /\ json_loads(store[ret.key].value) = ret.val

\* C7: no backend failure inside get, set, delete or clear reaches the
\* caller as an exception.
C7_NoFailurePropagates == ~ret.raised

\* C8: after delete(k) or clear() by an instance, get(k) on it returns None
\* from both tiers until some set(k, ...); delete(k) leaves the entries of
\* every other key as they were.
C8_GoneFromBothTiers ==
    \A i \in insts : \A k \in gone[i] : ~mem[i][k].has /\ ~store[k].has

C8_GetNone ==
    (ret'.op = "get" /\ ret'.key \in gone[ret'.inst]) => ret'.val = None

C8_DeleteFrame ==
    (ret'.op = "delete" /\ enabled)
    => \A k2 \in Keys \ {ret'.key} :
          /\ store'[k2] = store[k2]
          /\ \A j \in Insts : mem'[j][k2] = mem[j][k2]

C8_DeleteClear ==
    []C8_GoneFromBothTiers /\ [][C8_GetNone /\ C8_DeleteFrame]_vars

\* A get() of a deleted key returned None while another key is still held
\* in both tiers.
C8_Witness ==
    /\ ret.op = "get" /\ ret.key \in gone[ret.inst] /\ ret.val = None
    /\ backend = "file"
    /\ \E k2 \in keys \ {ret.key} : mem[ret.inst][k2].has /\ store[k2].has

\* ------------------------------------------------------------------------
\* Claims about the BrowserPool
\* ------------------------------------------------------------------------
\* C9: checked-out browsers plus idle browsers never exceed the pool size;
\* with max_browsers browsers checked out get_browser cannot pass the
\* semaphore; a browser is launched only when the idle list is empty.
C9_Bounded ==
    /\ checked_out + Len(browsers) <= max_browsers
    /\ checked_out = max_browsers => semaphore = 0

C9_LaunchOnlyWhenIdleEmpty ==
    \A t \in Tasks :
        (ppc[t] = "semaphore" /\ ppc'[t] = "launch") => browsers = <<>>

C9_PoolBound == []C9_Bounded /\ [][C9_LaunchOnlyWhenIdleEmpty]_vars

\* Every browser the pool allows is checked out and another create_page
\* is suspended on the semaphore.
C9_Witness ==
    /\ checked_out = max_browsers
    /\ max_browsers > 1
    /\ \E t \in Tasks : ppc[t] = "semaphore"
    /\ \E t \in Tasks : ppc[t] = "page"

\* C10: every slot get_browser took is freed once, also when create_page
\* fails after get_browser: with no call in progress the free slots plus
\* the browsers of the open pages make max_browsers.
NoCallInProgress == \A t \in Tasks : ppc[t] \in {"idle", "page"}

C10_SlotsBalanced ==
    NoCallInProgress
    => semaphore + Cardinality({t \in Tasks : ppc[t] = "page"}) = max_browsers

\* C11: after close_all() completed, no browser launched before it is in
\* the idle list, from which get_browser hands browsers out, also when it
\* was checked out during close_all() and released later.
C11_ClosedForGood == stale \cap Range(browsers) = {}

\* ------------------------------------------------------------------------
\* Claims about HybridExtractor and extract_with_retry
\* ------------------------------------------------------------------------
\* A request of task t for operation o passes its cache check in this step.
Starts(t, o) ==
    /\ opc[t] = "idle"
    /\ \/ oret'.t = t /\ oret'.op = o
       \/ opc'[t] = "api" /\ oper'[t] = o

\* An unexpired entry exists under the key of operation o.
HasEntry(o) ==
    /\ enabled
    /\ lastSet[cache_key(o)].has
    /\ lastSet[cache_key(o)].age <= ttl

\* The steps a request may take one after the other.
C12_Order ==
    \A t \in Tasks :
        /\ opc[t] = "idle" => opc'[t] \in {"idle", "api"}
        /\ opc[t] = "api" => opc'[t] \in {"api", "ratesleep", "attempt", "idle"}
        /\ opc[t] = "ratesleep" => opc'[t] \in {"ratesleep", "attempt"}
        /\ opc[t] = "attempt" => opc'[t] \in {"attempt", "backoff", "idle"}
        /\ opc[t] = "backoff" =>
              opc'[t] \in {"backoff", "ratesleep", "attempt", "idle"}
        /\ opc'[t] = "api" => calls'[t] = 1
        /\ opc[t] = "api" /\ opc'[t] # "api" => first[t] = NotCalled

C12_HitShortCircuits ==
    \A t \in Tasks, o \in Operations :
        Starts(t, o) /\ HasEntry(o) =>
            /\ oret'.t = t
            /\ oret'.val = lastSet[cache_key(o)].value
            /\ oret'.calls = 0
            /\ oret'.grants = 0
            /\ opc'[t] = "idle"
            /\ tokens' = tokens /\ elapsed' = elapsed

\* C12: a request goes through cache check, one direct extractor call,
\* retry-wrapped calls and result in this order, and with caching enabled
\* and an unexpired entry under its key it returns that entry without an
\* extractor call, a token acquisition or the retry loop.
C12_CacheCheckFirst == [][C12_Order /\ C12_HitShortCircuits]_vars

\* A request was answered from the cache, after an earlier one had gone
\* through the extractor.
C12_Witness == oret.t # NoTask /\ oret.hit /\ oret.val \in Values

\* Only data is ever in the cache.
C13_NoNoneCached ==
    \A k \in Keys :
        /\ mem[OrchCache][k].has => mem[OrchCache][k].value \in Values
        /\ lastSet[k].has => lastSet[k].value \in Values

\* A value is written to the cache only by a request in which an extractor
\* call returned it.
C13_SetOnlyExtracted ==
    ret'.op = "set" =>
        /\ ret'.val \in Values
        /\ oret'.t # NoTask /\ ~oret'.hit /\ oret'.calls >= 1
        /\ oret'.val = ret'.val

C13_SuccessHasData ==
    kres.t # NoTask /\ kres.success =>
        kres.followers # None \/ kres.engagement # None

\* C13: the orchestrator never stores None in the cache, what it stores is
\* what an extractor call of that request returned, and
\* extract_complete_kpi_data reports success only with followers or
\* engagement non-null.
C13_OnlyDataCachedOrSuccessful ==
    /\ [](C13_NoNoneCached /\ C13_SuccessHasData)
    /\ [][C13_SetOnlyExtracted]_vars

\* extract_complete_kpi_data succeeded without a follower count, on the
\* engagement data alone.
C13_Witness ==
    /\ kres.t # NoTask /\ kres.success
    /\ kres.followers = None /\ kres.engagement \in Values

\* C14: when no cache entry exists and the first call of the registered
\* extractor yields a follower count n, extract_followers returns n, makes
\* no further extractor call and leaves n in the cache under its key.
C14_FirstResultReturned ==
    (oret'.t # NoTask /\ oret'.op = "followers" /\ oret'.first \in Values) =>
        /\ oret'.val = oret'.first
        /\ oret'.calls = 1
        /\ enabled => get_from_memory(OrchCache, cache_key("followers"))'
                          = oret'.first

C14_ApiResultReturnedAndCached == [][C14_FirstResultReturned]_vars

\* The direct call of task t raised in this step.
FirstRaised(t) ==
    /\ opc[t] = "api"
    /\ \/ opc'[t] # "idle" /\ first'[t] = Raises
       \/ oret'.t = t /\ oret'.first = Raises

C15_FallsThrough ==
    \A t \in Tasks :
        FirstRaised(t) =>
            \/ opc'[t] \in {"attempt", "ratesleep"}
            \/ /\ max_retries = 0
               /\ oret'.t = t /\ oret'.val = None /\ ~oret'.raised

\* C15: an exception of the direct extractor call is not propagated, the
\* request goes on to the retry-wrapped attempts; whatever the extractor
\* raises, the request completes with a value or None and never raises.
C15_NeverRaises == [](~oret.raised) /\ [][C15_FallsThrough]_vars

\* A request whose direct call raised returned data from a retry-wrapped
\* attempt.
C15_Witness ==
    oret.t # NoTask /\ oret.first = Raises /\ oret.val \in Values /\ ~oret.raised

\* The attempts extract_with_retry made so far for the request of task t.
Attempts(t) == IF calls[t] > 0 THEN calls[t] - 1 ELSE 0

C16_AtMostMaxRetries ==
    \A t \in Tasks : Attempts(t) <= max_retries /\ retries[t] <= max_retries

\* A failed attempt is counted; the result of an attempt that did not
\* raise is returned at once; after max_retries failures None is returned.
C16_Loop ==
    \A t \in Tasks :
        /\ opc[t] = "attempt" /\ opc'[t] = "backoff" =>
               retries'[t] = retries[t] + 1
        /\ opc[t] = "attempt" /\ opc'[t] \notin {"attempt", "backoff"} =>
               oret'.t = t
        /\ opc[t] = "backoff" /\ opc'[t] # "backoff" /\ retries[t] = max_retries
               => oret'.t = t /\ oret'.val = None
                  /\ oret'.calls = 1 + max_retries

\* The wait after the failed attempt number retries is min(2^retries, 60)
\* seconds plus a jitter.
C16_WaitHasJitter ==
    \A t \in Tasks :
        opc[t] = "attempt" /\ opc'[t] = "backoff" =>
            osleep'[t] > Min(2 ^ retries'[t], 60)

\* The wait after the failed attempt number retries is min(2^retries, 60)
\* seconds.
C16_WaitExact ==
    \A t \in Tasks :
        opc[t] = "attempt" /\ opc'[t] = "backoff" =>
            osleep'[t] = Min(2 ^ retries'[t], 60)

\* C16 as stated: at most MAX_RETRIES attempts, min(2^attempt, 60) seconds
\* plus jitter between attempts, the first result returned, None after
\* MAX_RETRIES failures.
C16_RetryWithJitter ==
    []C16_AtMostMaxRetries /\ [][C16_Loop /\ C16_WaitHasJitter]_vars

\* C16 as amended: ... exactly min(2^attempt, 60) seconds, without jitter,
\* after every failed attempt ...
C16_RetryExactBackoff ==
    []C16_AtMostMaxRetries /\ [][C16_Loop /\ C16_WaitExact]_vars

\* extract_with_retry gave up after MAX_RETRIES attempts, the last backoff
\* having been capped at 60 seconds.
C16_Witness ==
    /\ oret.t # NoTask /\ oret.val = None
    /\ oret.calls = 1 + max_retries
    /\ 2 ^ max_retries > 60

\* C17: with rate limiting enabled the attempts made inside
\* extract_with_retry never outnumber the tokens acquire() granted.
C17_AttemptsWithinGrants ==
    rate_limit_enabled => \A t \in Tasks : Attempts(t) <= grants[t]

\* The extractor calls in flight for the key of operation o.
InFlight(o) == {t \in Tasks : opc[t] \in {"api", "attempt"} /\ oper[t] = o}

\* C19: for one platform and target at most one extractor call is in
\* flight at any time.
C19_SingleFlight == \A o \in Operations : Cardinality(InFlight(o)) <= 1

\* ------------------------------------------------------------------------
\* C18: extract_complete_kpi_data sets engagement_rate to
\* round(total_engagement / followers * 100, 2) when a positive follower
\* count and both engagement averages are available (1000 followers and a
\* total engagement of 50 give 5.00); when followers is 0 or unknown the
\* field is omitted and no division error is raised.
\* ------------------------------------------------------------------------
TotalEngagement == engagement.avg_likes + engagement.avg_comments

TotalsAvailable ==
    /\ ~engagement.none
    /\ {"avg_likes", "avg_comments"} \subseteq engagement.keys
    /\ engagement.avg_likes # Unknown
    /\ engagement.avg_comments # Unknown

\* r hundredths of a percent is a nearest hundredth to 100 * n / d percent
NearestHundredth(r, n, d) ==
    LET diff == r * d - 10000 * n
    IN IF diff >= 0 THEN 2 * diff <= d ELSE 2 * (0 - diff) <= d

C18_EngagementRate ==
    result.done =>
        /\ (followers > 0 /\ TotalsAvailable) =>
              /\ result.has_rate
              /\ ~result.error
              /\ NearestHundredth(result.engagement_rate, TotalEngagement,
                                  followers)
        /\ (followers = 1000 /\ TotalsAvailable /\ TotalEngagement = 50) =>
              result.engagement_rate = 500
        /\ followers \in {0, Unknown} =>
              /\ ~result.has_rate
              /\ ~result.error

\* 1000 followers, 30 likes and 20 comments on average: 5.00 percent
C18_Witness ==
    /\ result.done
    /\ followers = 1000
    /\ TotalsAvailable
    /\ TotalEngagement = 50
    /\ result.has_rate
    /\ result.engagement_rate = 500

\* ------------------------------------------------------------------------
\* C20: extract_multiple_platforms returns exactly one entry for each
\* platform whose url is not empty and none for the others; the entry of
\* platform p is the result of extracting p's own url whatever the order in
\* which the tasks ended; in parallel mode a task that raised gives its own
\* platform an entry with success = False and every other platform keeps
\* the result of its own task.
\* ------------------------------------------------------------------------
RequestedPlatforms ==
    {urls[i].platform : i \in {j \in DOMAIN urls : urls[j].url # NoUrl}}

\* The task of platform p in the gather
TaskOf(p) ==
    CHOOSE i \in DOMAIN Requested(urls) : Requested(urls)[i].platform = p

C20_OneEntryPerPlatform ==
    mpc = "returned" =>
        /\ DOMAIN results = RequestedPlatforms
        /\ \A p \in DOMAIN results :
              /\ results[p].kind = "dict"
              /\ results[p].platform = p
              /\ results[p].url = UrlOf(urls, p)
              /\ parallel =>
                    IF platform_results[TaskOf(p)] = Raised
                    THEN ~results[p].success
                    ELSE results[p] = platform_results[TaskOf(p)]

\* Three tasks that ended in the reverse of their order, the second one
\* with an exception, and the assembled results
C20_Witness ==
    /\ mpc = "returned"
    /\ parallel
    /\ completed = <<3, 2, 1>>
    /\ platform_results[2] = Raised
    /\ platform_results[1].success
    /\ platform_results[3].success
    /\ DOMAIN results = {1, 2, 3}

\* ------------------------------------------------------------------------
\* C21: with parallel extraction disabled no two platform extractions
\* overlap, a randomized delay separates every two consecutive platform
\* extractions, and no delay follows the last platform actually processed.
\* ------------------------------------------------------------------------
\* A platform with a url comes after the current position of the loop
MoreToProcess ==
    \E j \in DOMAIN urls : j > position /\ urls[j].url # NoUrl

C21_NoOverlap == ~parallel => Cardinality(running) <= 1

\* When an extraction ends normally and another platform is still to be
\* processed, a sleep of 3 to 8 seconds starts.
C21_DelayBetween ==
    [][(~parallel /\ mpc = "extracting" /\ mpc' # "raised" /\ MoreToProcess)
          => (mpc' = "delay" /\ delay' \in DelayLow..DelayHigh)]_vars

C21_NoDelayAfterLast == (~parallel /\ mpc = "delay") => MoreToProcess

C21_SequentialWithDelays ==
    /\ []C21_NoOverlap
    /\ C21_DelayBetween
    /\ []C21_NoDelayAfterLast

\* ------------------------------------------------------------------------
\* C22: the estimate from the follower count is used for engagement only:
\* a result of _estimate_engagement_from_followers carries estimated = True,
\* a measured engagement result does not, extract_followers never returns
\* an estimate, and behind a login wall with no follower count
\* extract_engagement returns None.
\* ------------------------------------------------------------------------
C22_EstimateFlagged ==
    /\ got_engagement.origin = "estimate" => got_engagement.estimated
    /\ got_engagement.origin \in {"api", "posts"} =>
          ~got_engagement.estimated
    /\ got_followers.origin \in {"pending", "none", "api", "login_page",
                                  "page"}
    /\ ~got_followers.estimated
    /\ (got_engagement.origin # "pending" /\ page.login
          /\ page.login_followers = Unknown
          /\ ~(page.credentials /\ page.api = "data")) =>
            got_engagement = ReturnsNone

\* Behind the login prompt with a count on the login page: the estimate
C22_Witness ==
    /\ got_engagement.origin = "estimate"
    /\ got_engagement.estimated
    /\ got_followers.origin = "login_page"
    /\ page.login

\* ------------------------------------------------------------------------
\* C23: every parsing strategy of every platform extractor maps a count to
\* its integer value whatever other words the text contains: "1.2K" gives
\* 1200, "3.4M" gives 3400000 and "45,231" gives 45231.
\* ------------------------------------------------------------------------
\* The integer the count of the text stands for
ValueOf(t) ==
    IF t.suffix \in {"K", "k"} THEN Thousands(t.number)
    ELSE IF t.suffix \in {"M", "m"} THEN Millions(t.number)
    ELSE t.number.whole

C23_ParsedValue == parsed # NotParsed => parsed = ValueOf(content)

\* ------------------------------------------------------------------------
\* C24: after a 429 response the client sends no further request to the
\* platform before the Retry-After duration (or the default when the header
\* is missing) has passed, and the 429 response is never cached.
\* ------------------------------------------------------------------------
\* A request is sent only once the asked wait has passed
C24_WaitHonoured ==
    [][sent' = sent + 1 => retry_left <= response'.waited]_vars

C24_LimitedNotCached ==
    [][response'.status = "limited" => api_cache' = api_cache]_vars

C24_RetryAfterHonoured ==
    /\ C24_WaitHonoured
    /\ C24_LimitedNotCached

\* ------------------------------------------------------------------------
\* C25: BaseAPIClient.extract_with_retry calls the extraction function at
\* most max_retries times, an exception and a None result both being a
\* failed attempt; the first non-None result is returned at once; it sleeps
\* min(2^k + jitter, 60) seconds between attempts only, never after the
\* last one; after the last failed attempt it returns None and does not
\* raise.
\* ------------------------------------------------------------------------
C25_AtMostMaxRetries == x_calls <= x_max

\* Every failed attempt counts, and only failed attempts do
C25_FailuresCounted ==
    /\ x_pc # "returned" => x_retries = x_calls
    /\ x_last \in Values => (x_pc = "returned" /\ x_ret = x_last)

\* A sleep follows the k-th failed attempt, lasts min(2^k + jitter, 60)
\* seconds with a jitter between 0 and 1, and another attempt follows it
C25_SleepBetween ==
    x_pc = "sleep" =>
        /\ x_retries < x_max
        /\ x_wait >= Min(2 * (2 ^ x_retries), 2 * WaitCap)
        /\ x_wait <= Min(2 * (2 ^ x_retries) + 2, 2 * WaitCap)
        /\ x_wait <= 2 * WaitCap

\* One sleep after every failed attempt that another attempt follows, and
\* none after the last attempt
C25_NoSleepAfterLast ==
    /\ (x_pc = "loop" /\ x_calls < x_max) => x_slept = x_calls
    /\ (x_pc = "sleep") => (x_slept = x_calls - 1 /\ x_calls < x_max)
    /\ (x_pc = "returned" \/ x_calls = x_max) => x_slept = x_calls - 1

\* All attempts failed: None is returned
C25_NoneAfterLast ==
    (x_pc = "returned" /\ x_last \notin Values) =>
        (x_ret = None /\ x_calls = x_max)

C25_RetryWithBackoff ==
    /\ C25_AtMostMaxRetries
    /\ C25_FailuresCounted
    /\ C25_SleepBetween
    /\ C25_NoSleepAfterLast
    /\ C25_NoneAfterLast

\* Every attempt of a call with the largest max_retries failed, the sixth
\* sleep was capped, and None was returned
C25_Witness ==
    /\ x_pc = "returned"
    /\ x_max = ApiMaxRetries
    /\ x_calls = x_max
    /\ x_slept = x_max - 1
    /\ x_last = Raises
    /\ x_ret = None

\* ------------------------------------------------------------------------
\* C26: a test case is valid only if every expected profile field is
\* present and not None and every expected engagement field is present; a
\* client call that returns nothing or raises gives is_valid = False with
\* an error entry and does not propagate; in the report
\* successful_tests <= total_tests = the sum of the per-platform test
\* counts, and every success rate is within 0..100, 0 for a platform
\* without tests.
\* ------------------------------------------------------------------------
C26_ValidOnlyIfComplete ==
    (v_case.called /\ v_case.is_valid) =>
        /\ v_case.profile.kind = "dict"
        /\ \A f \in ExpectedFields : v_case.profile.fields[f] = "value"
        /\ v_case.engagement.kind = "dict"
        /\ \A f \in ExpectedFields :
              v_case.engagement.fields[f] = "present"

C26_FailureIsInvalid ==
    (v_case.called /\ (v_case.profile.kind # "dict"
                         \/ v_case.engagement.kind # "dict")) =>
        (~v_case.is_valid /\ v_case.errors > 0)

C26_ReportConsistent ==
    v_report.done =>
        /\ v_report.successful_tests <= v_report.total_tests
        /\ v_report.total_tests = SumOver(v_tests, ValidatedPlatforms)
        /\ v_report.overall_success_rate \in 0..10000
        /\ \A p \in ValidatedPlatforms :
              /\ v_report.platforms[p].tests = v_tests[p]
              /\ v_report.platforms[p].success_rate \in 0..10000
              /\ v_tests[p] = 0 => v_report.platforms[p].success_rate = 0

C26_Validator ==
    /\ C26_ValidOnlyIfComplete
    /\ C26_FailureIsInvalid
    /\ C26_ReportConsistent

\* A report over a platform without tests and a platform with a valid and
\* an invalid case
C26_Witness ==
    /\ v_report.done
    /\ v_report.total_tests = 2
    /\ v_report.successful_tests = 1
    /\ v_report.platforms[1].tests = 0
    /\ v_report.overall_success_rate = 5000
    /\ v_case.called

\* ------------------------------------------------------------------------
\* C27: over any time interval of length T, the acquire() calls of one
\* RateLimiter that return True number at most burst + T * (rate / per), and
\* an acquire() that returns False never lowers the token count.
\* ------------------------------------------------------------------------
\* In units of 1/per token: grants * per <= burst * per + T * rate.
C27_WindowBound ==
    w_phase = "open" => w_grants * per <= max_tokens + w_time * rate

\* The count goes down only in the step of an acquire() that returns True.
C27_FailedKeepsTokens ==
    [][tokens' < tokens => (last'.t # NoTask /\ last'.ok)]_vars

C27_RateBound == []C27_WindowBound /\ C27_FailedKeepsTokens

\* The bound is met with equality after time has passed, and the acquire()
\* just completed was refused.
C27_Witness ==
    /\ w_phase = "open"
    /\ w_time >= 1
    /\ w_grants * per = max_tokens + w_time * rate
    /\ last.t # NoTask
    /\ ~last.ok

\* ------------------------------------------------------------------------
\* C28: extract_complete_kpi_data reports success = True whenever the
\* followers value or the engagement result obtained during the call is not
\* None, for every shape of engagement result an extractor can return, the
\* dicts whose avg_likes or avg_comments is None included; it sets error
\* only when success is False, and it never raises.
\* ------------------------------------------------------------------------
DataObtained == followers # Unknown \/ ~engagement.none

C28_SuccessWhenData == result.done /\ DataObtained => result.success

C28_ErrorOnlyOnFailure == result.done /\ result.error => ~result.success

C28_SuccessReported == C28_SuccessWhenData /\ C28_ErrorOnlyOnFailure

\* ------------------------------------------------------------------------
\* C29: in any interleaving of create_page, close_page and release_browser
\* calls, close_page or release_browser called twice for the same page or
\* browser included, no browser is in the idle list more than once, no
\* browser is checked out to two tasks at the same time, and the free slots
\* of the semaphore never exceed the pool size.
\* ------------------------------------------------------------------------
C29_IdleOnce ==
    \A i, j \in 1..Len(browsers) : i # j => browsers[i] # browsers[j]

\* The task got its browser from get_browser and has not yet released it.
CheckedOutTo(t) ==
    ppc[t] \in {"context", "page", "closing"} /\ held[t] # NoBrowser

C29_OneHolder ==
    \A t, u \in Tasks :
        t # u /\ CheckedOutTo(t) /\ CheckedOutTo(u) => held[t] # held[u]

C29_SlotsBounded == semaphore <= max_browsers

C29_PoolConsistent == C29_IdleOnce /\ C29_OneHolder /\ C29_SlotsBounded

\* ------------------------------------------------------------------------
\* C30: in the synchronous HybridExtractor.extract_followers and
\* extract_engagement, when every call of the extractor returns None or
\* raises, the extractor is called exactly 1 + MAX_RETRIES times, the delay
\* before retry k + 1 is 2 * k seconds, no delay follows the final attempt
\* and the result is None; as soon as a call returns a value that is not
\* None, it is returned and no further call is made.
\* ------------------------------------------------------------------------
Returned == l_pc = "returned" /\ l_registered

\* Every call failed: 1 + MAX_RETRIES calls and the result None.
C30_AllFailed ==
    Returned /\ l_fails = l_calls =>
        /\ l_calls = 1 + l_max
        /\ l_ret = None

\* The k-th sleep lasts 2 * k seconds and comes after attempt k, that is
\* after k + 1 calls, and before the next one.
C30_Delays ==
    /\ \A k \in 1..Len(l_delays) : l_delays[k] = 2 * k
    /\ l_pc = "sleep" => Len(l_delays) = l_calls - 1
    /\ l_pc = "loop" /\ l_attempt <= l_max => Len(l_delays) = l_calls - 1

\* No sleep after the final attempt: MAX_RETRIES attempts have at most
\* MAX_RETRIES - 1 sleeps between them.
C30_NoDelayAfterLast ==
    /\ l_max > 0 => Len(l_delays) <= l_max - 1
    /\ l_max = 0 => l_delays = <<>>
    /\ l_pc = "sleep" => l_attempt < l_max

\* A value is returned by the call that gave it, all calls before it
\* having failed.
C30_FirstValue ==
    /\ Returned /\ l_ret # None =>
          /\ l_last = l_ret
          /\ l_fails = l_calls - 1
    /\ Returned /\ Obtained(l_last) => l_ret = l_last
    /\ l_pc # "returned" => l_fails = l_calls

C30_LegacyRetries ==
    C30_AllFailed /\ C30_Delays /\ C30_NoDelayAfterLast /\ C30_FirstValue

\* Every call failed with MAX_RETRIES = 3: 4 calls, sleeps of 2 and 4 s.
C30_Witness ==
    /\ Returned
    /\ l_max = 3
    /\ l_fails = l_calls
    /\ l_calls = 4
    /\ l_delays = <<2, 4>>
    /\ l_ret = None

====
